---- MODULE Spec2Model ----
(***************************************************************************)
(* SSRF guard of the ads/seo scraping scripts: host/IP classification,     *)
(* URL validation, the redirect loop of fetch_page and the request gate    *)
(* (route_handler) of the Playwright tools.                                *)
(*                                                                         *)
(* Modelling conventions                                                   *)
(*  - A URL is a record [scheme, host]: what urlparse(url).scheme and      *)
(*    urlparse(url).hostname give; a missing hostname (None) is "".        *)
(*  - The URL text a caller passes is a sequence of tokens (whitespace,    *)
(*    "scheme:", "//", a host, ":8080", "/path"); strip, the "https://"    *)
(*    prefix and urlparse work on that sequence.                           *)
(*  - A call that ends by an exception returns a record with a field       *)
(*    raised; every caller hands it on unless its code catches it.         *)
(*  - An IP address is its text; the class flags of the sample addresses   *)
(*    are those of Python's ipaddress module.                              *)
(*  - dns is what socket.getaddrinfo answers for each name at this         *)
(*    instant; the environment may change it between steps.                *)
(*  - Python's None is the string "None"; a reason or error is a tuple of  *)
(*    strings (the pieces of the f-string), <<>> when there is none.       *)
(***************************************************************************)
EXTENDS Naturals, Sequences, FiniteSets

\* ------------------------------------------------------------------ bounds
\* Largest max_redirects a caller passes to fetch_page.
MaxRedirectsBound == 2
\* Number of times the resolver's answers change during one call.
MaxDnsChanges == 1
\* Number of requests the browser emits during one session.
MaxRequests == 2
\* Largest number of addresses in one getaddrinfo answer.
MaxAddrs == 3

None == "None"

\* ------------------------------------------------------- addresses (ipaddress)
PublicV4 == "93.184.216.34"
PublicV6 == "2606:2800:220:1:248:1893:25c8:1946"
PrivateV4 == "10.0.0.5"
LoopbackV4 == "127.0.0.1"
BadIPText == "not-an-ip"

\* Texts ipaddress.ip_address() accepts.
IPTexts ==
    { PublicV4, PublicV6, PrivateV4, LoopbackV4, "169.254.169.254", "224.0.0.1",
      "240.0.0.1", "0.0.0.0", "::1", "::", "fe80::1", "fc00::1", "ff02::1",
      "192.168.1.1", "100.64.0.1" }

is_private(ip) ==
    ip \in { PrivateV4, LoopbackV4, "169.254.169.254", "240.0.0.1", "0.0.0.0", "::1",
             "::", "fe80::1", "fc00::1", "192.168.1.1" }
is_loopback(ip) == ip \in { LoopbackV4, "::1" }
is_reserved(ip) == ip \in { "240.0.0.1", "::1", "::" }
is_link_local(ip) == ip \in { "169.254.169.254", "fe80::1" }
is_multicast(ip) == ip \in { "224.0.0.1", "ff02::1" }
is_unspecified(ip) == ip \in { "0.0.0.0", "::" }

\* ipaddress.ip_address(text) returns an address (TRUE) or raises ValueError (FALSE).
ip_address(text) == text \in IPTexts

\* A classification that forgets multicast addresses.
_is_public_ip_no_multicast(ip) ==
    ~( is_private(ip)
       \/ is_loopback(ip)
       \/ is_reserved(ip)
       \/ is_link_local(ip)
       \/ is_unspecified(ip) )

_is_public_ip(ip) ==
    ~( is_private(ip)
       \/ is_loopback(ip)
       \/ is_reserved(ip)
       \/ is_link_local(ip)
       \/ is_multicast(ip)
       \/ is_unspecified(ip) )

\* ------------------------------------------------------------------ resolver
\* Names the resolver knows; any other host that is not a literal fails to resolve.
DnsNames == { "example.com", "internal.test" }

\* A host name with an empty label: the idna encoding getaddrinfo applies to its
\* argument raises UnicodeError for it (also for a label of more than 63 characters).
EmptyLabelHost == "a..com"
MalformedNames == { EmptyLabelHost }

GaiError == [gaierror |-> TRUE, addrs |-> <<>>]
Addrs(s) == [gaierror |-> FALSE, addrs |-> s]
UnicodeError == [gaierror |-> FALSE, addrs |-> <<>>, raised |-> "UnicodeError"]

\* The call ended by an exception instead of returning.
IsRaise(r) == "raised" \in DOMAIN r

\* Answers the resolver gives for a name during a fetch_page call or a browser
\* session: public, partly private, failing, or a text that is no IP address.
SessionAnswers(name) ==
    IF name = "example.com"
    THEN { Addrs(<<PublicV4>>), Addrs(<<PublicV4, PrivateV4>>), GaiError }
    ELSE { Addrs(<<PublicV4>>), Addrs(<<PrivateV4, PublicV4>>), Addrs(<<BadIPText>>) }

\* socket.getaddrinfo(hostname, None, proto=IPPROTO_TCP): the sockaddr[0] texts in
\* the order returned, or gaierror, or the UnicodeError of the idna encoding.
getaddrinfo(hostname, d) ==
    IF hostname \in MalformedNames THEN UnicodeError
    ELSE IF hostname \in DOMAIN d THEN d[hostname]
    ELSE GaiError

Allowed == [ok |-> TRUE, reason |-> <<>>]
Blocked(reason) == [ok |-> FALSE, reason |-> reason]
\* _is_public_host catches ValueError of ip_address and socket.gaierror only.
Raised(exc) == [ok |-> FALSE, reason |-> <<>>, raised |-> exc]

\* A loop that looks at the first address only.
CheckAddrInfo_first_only(hostname, addr_info, seen_ips) ==
    IF addr_info = <<>> THEN Allowed
    ELSE LET ip_text == Head(addr_info) IN
         IF ~ip_address(ip_text)
         THEN Blocked(<<"Invalid resolved IP for", hostname, ip_text>>)
         ELSE IF ~_is_public_ip(ip_text)
         THEN Blocked(<<"Blocked non-public IP for", hostname, ip_text>>)
         ELSE Allowed

\* The for loop of _is_public_host over addr_info, with its seen_ips set.
RECURSIVE CheckAddrInfo(_, _, _)
CheckAddrInfo(hostname, addr_info, seen_ips) ==
    IF addr_info = <<>> THEN Allowed
    ELSE LET ip_text == Head(addr_info) IN
         IF ip_text \in seen_ips
         THEN CheckAddrInfo(hostname, Tail(addr_info), seen_ips)
         ELSE IF ~ip_address(ip_text)
         THEN Blocked(<<"Invalid resolved IP for", hostname, ip_text>>)
         ELSE IF ~_is_public_ip(ip_text)
         THEN Blocked(<<"Blocked non-public IP for", hostname, ip_text>>)
         ELSE CheckAddrInfo(hostname, Tail(addr_info), seen_ips \cup {ip_text})

\* What one call of _is_public_host does: the names it hands to
\* socket.getaddrinfo, in order, and the tuple it returns.
Ran(result, lookups) == [result |-> result, lookups |-> lookups]

\* Variant: no branch for a literal address, every host name is resolved.
_is_public_host_run_resolves_literal(hostname, d) ==
    IF hostname = "" THEN Ran(Blocked(<<"Missing hostname">>), <<>>)
    ELSE LET addr_info == getaddrinfo(hostname, d) IN
         IF IsRaise(addr_info) THEN Ran(Raised(addr_info.raised), <<hostname>>)
         ELSE IF addr_info.gaierror
         THEN Ran(Blocked(<<"DNS resolution failed for", hostname>>), <<hostname>>)
         ELSE Ran(CheckAddrInfo(hostname, addr_info.addrs, {}), <<hostname>>)

\* Variant: a resolution failure is reported as a blocked address.
_is_public_host_run_failure_as_block(hostname, d) ==
    IF hostname = "" THEN Ran(Blocked(<<"Missing hostname">>), <<>>)
    ELSE IF ip_address(hostname)
    THEN IF ~_is_public_ip(hostname)
         THEN Ran(Blocked(<<"Blocked non-public IP", hostname>>), <<>>)
         ELSE Ran(Allowed, <<>>)
    ELSE LET addr_info == getaddrinfo(hostname, d) IN
         IF IsRaise(addr_info) THEN Ran(Raised(addr_info.raised), <<hostname>>)
         ELSE IF addr_info.gaierror
         THEN Ran(Blocked(<<"Blocked non-public IP", hostname>>), <<hostname>>)
         ELSE Ran(CheckAddrInfo(hostname, addr_info.addrs, {}), <<hostname>>)

_is_public_host_run(hostname, d) ==
    IF hostname = "" THEN Ran(Blocked(<<"Missing hostname">>), <<>>)
    ELSE IF ip_address(hostname)
    THEN IF ~_is_public_ip(hostname)
         THEN Ran(Blocked(<<"Blocked non-public IP", hostname>>), <<>>)
         ELSE Ran(Allowed, <<>>)
    ELSE LET addr_info == getaddrinfo(hostname, d) IN
         IF IsRaise(addr_info) THEN Ran(Raised(addr_info.raised), <<hostname>>)
         ELSE IF addr_info.gaierror
         THEN Ran(Blocked(<<"DNS resolution failed for", hostname>>), <<hostname>>)
         ELSE Ran(CheckAddrInfo(hostname, addr_info.addrs, {}), <<hostname>>)

\* The tuple _is_public_host returns (or the exception it ends by).
_is_public_host(hostname, d) == _is_public_host_run(hostname, d).result

\* ---------------------------------------------------------------------- URLs
Url(s, h) == [scheme |-> s, host |-> h]
NoUrl == Url("", "")

\* Tokens of a URL text.
WS == " "
SLASHES == "//"
PORT == ":8080"
PATH == "/path"
SchemeTokens == { "http:", "https:", "HTTP:", "ftp:" }
IsHostToken(tok) == tok \notin SchemeTokens \cup { WS, SLASHES, PORT, PATH }
\* The text of no URL (None).
NoText == <<>>

\* str.strip(): leading and trailing whitespace removed.
RECURSIVE lstrip(_)
lstrip(text) ==
    IF text # <<>> /\ Head(text) = WS THEN lstrip(Tail(text)) ELSE text
RECURSIVE rstrip(_)
rstrip(text) ==
    IF text # <<>> /\ text[Len(text)] = WS
    THEN rstrip(SubSeq(text, 1, Len(text) - 1))
    ELSE text
strip(text) == rstrip(lstrip(text))

\* urlsplit lowercases the scheme it finds.
scheme_of(tok) ==
    CASE tok = "http:" -> "http"
      [] tok = "https:" -> "https"
      [] tok = "HTTP:" -> "http"
      [] tok = "ftp:" -> "ftp"

\* A host followed by whitespace is part of a netloc that ends in a space.
with_space(host) == IF host = "example.com" THEN "example.com " ELSE "host "

\* urlparse(..).hostname of what follows the scheme: the netloc exists only after
\* "//", and runs to the next "/".
hostname_of(rest) ==
    IF Len(rest) >= 2 /\ rest[1] = SLASHES /\ IsHostToken(rest[2])
    THEN IF Len(rest) >= 3 /\ rest[3] = WS THEN with_space(rest[2]) ELSE rest[2]
    ELSE ""

\* urlparse(text): scheme and hostname. urlsplit drops leading whitespace; text
\* such as "example.com:8080/x" has the scheme "example.com", because the
\* characters before the first colon are letters, digits and dots and start with
\* a letter.
urlparse(text) ==
    LET t == lstrip(text) IN
    IF t = <<>> THEN NoUrl
    ELSE IF Head(t) \in SchemeTokens THEN Url(scheme_of(Head(t)), hostname_of(Tail(t)))
    ELSE IF Len(t) >= 2 /\ IsHostToken(t[1]) /\ ~ip_address(t[1]) /\ t[2] = PORT
    THEN Url(t[1], "")
    ELSE Url("", hostname_of(t))

\* A _validate_url that does not strip its argument.
normalize_no_strip(raw_url) ==
    IF urlparse(raw_url).scheme = "" THEN <<"https:", SLASHES>> \o raw_url ELSE raw_url

\* url = raw_url.strip(); "https://" is prefixed when urlparse finds no scheme.
normalize(raw_url) ==
    LET url == strip(raw_url) IN
    IF urlparse(url).scheme = "" THEN <<"https:", SLASHES>> \o url ELSE url

\* A _validate_url that resolves the host before it looks at scheme and hostname.
_validate_url_host_first(raw_url, d) ==
    LET url == normalize(raw_url)
        parsed == urlparse(url)
        r == _is_public_host(parsed.host, d)
    IN IF ~r.ok
       THEN [url |-> NoUrl, text |-> NoText, error |-> r.reason, checked |-> TRUE]
       ELSE IF parsed.scheme \notin {"http", "https"}
       THEN [url |-> NoUrl, text |-> NoText, checked |-> TRUE,
             error |-> <<"Invalid URL scheme", parsed.scheme>>]
       ELSE [url |-> parsed, text |-> url, error |-> <<>>, checked |-> TRUE]

\* _validate_url(raw_url) returns (validated_url, None) or (None, error): text is
\* the string, url what urlparse finds in it, checked whether _is_public_host was
\* called. An exception of _is_public_host is not caught.
_validate_url(raw_url, d) ==
    LET url == normalize(raw_url)
        parsed == urlparse(url)
    IN IF parsed.scheme \notin {"http", "https"}
       THEN [url |-> NoUrl, text |-> NoText, checked |-> FALSE,
             error |-> <<"Invalid URL scheme", parsed.scheme>>]
       ELSE IF parsed.host = ""
       THEN [url |-> NoUrl, text |-> NoText, checked |-> FALSE,
             error |-> <<"Invalid URL: missing hostname">>]
       ELSE LET r == _is_public_host(parsed.host, d) IN
            IF IsRaise(r)
            THEN [url |-> NoUrl, text |-> NoText, checked |-> TRUE, error |-> <<>>,
                  raised |-> r.raised]
            ELSE IF ~r.ok
            THEN [url |-> NoUrl, text |-> NoText, checked |-> TRUE, error |-> r.reason]
            ELSE [url |-> parsed, text |-> url, checked |-> TRUE, error |-> <<>>]

\* urljoin(current_url, location): an absolute location replaces the URL, a
\* scheme-relative one ("//host/..") keeps the scheme, a path keeps both.
urljoin(base, location) ==
    IF location.scheme # "" THEN Url(location.scheme, location.host)
    ELSE IF location.host # "" THEN Url(base.scheme, location.host)
    ELSE base

\* --------------------------------------------------------------------- state
VARIABLES
    dns,            \* what getaddrinfo answers now: [DnsNames -> answer]
    dns_changes,    \* how often the answers changed so far
    fp_pc,          \* fetch_page: "start", "loop", "wait", "done"
    fp_url,         \* fetch_page argument url
    fp_follow,      \* fetch_page argument follow_redirects
    fp_max,         \* fetch_page argument max_redirects
    fp_current,     \* local current_url
    fp_chain,       \* local redirect_chain
    fp_iter,        \* iterations of the for loop started so far
    fp_result,      \* the result dict
    fp_raised,      \* an exception left fetch_page
    fp_log,         \* trace of the call: host checks, requests issued, responses
    bt_tool,        \* which browser tool runs
    bt_url,         \* the tool's argument url
    bt_pc,          \* "start", "validated", "page", "routed", "navigating",
                    \* "settled", "reading", "done"; "raised" when an exception
                    \* left the tool, "fault" when route_handler raised
    bt_pass,        \* viewport pass: "desktop" (the first or only one), "mobile"
    bt_validated,   \* local validated_url
    bt_result,      \* the result dict: error, success
    browser_open,   \* a launched browser that was not closed
    host_cache,     \* the dict host_cache: hostname -> (is_public, reason)
    page_routed,    \* the current page has route_handler registered
    page_url,       \* page.url once goto returned
    pending,        \* intercepted requests whose route_handler has not run yet
    emitted,        \* subresource requests the pages issued so far
    ungated,        \* requests a page made while no handler was registered
    route_last,     \* what the latest route_handler invocation did
    resolver_calls, \* _is_public_host calls per caller and hostname
    verdicts,       \* <<caller, hostname, is_public>> outcomes reached so far
    bt_log,         \* trace of the session: launch, route, goto, final check, read
    pf_call,        \* the function called on its own: "_is_public_ip",
                    \* "_is_public_host", "_validate_url"; "none" during a tool run
    pf_pc,          \* "call" before it ran, "returned" after
    pf_ip,          \* argument of _is_public_ip
    pf_hostname,    \* argument of _is_public_host
    pf_raw,         \* argument of _validate_url
    pf_result       \* what each of the three functions returned

fetch_vars ==
    <<fp_pc, fp_url, fp_follow, fp_max, fp_current, fp_chain, fp_iter, fp_result,
      fp_raised, fp_log>>

browser_vars ==
    <<bt_tool, bt_url, bt_pc, bt_pass, bt_validated, bt_result, browser_open,
      host_cache, page_routed, page_url, pending, emitted, ungated, route_last,
      resolver_calls, verdicts, bt_log>>

pure_vars == <<pf_call, pf_pc, pf_ip, pf_hostname, pf_raw, pf_result>>

vars == <<dns, dns_changes, fetch_vars, browser_vars, pure_vars>>

\* ----------------------------------------------------------- the environment
\* The resolver's answer for one name changes (DNS rebinding, TTL expiry).
DnsChange ==
    /\ dns_changes < MaxDnsChanges
    /\ \E n \in DnsNames :
          \E a \in SessionAnswers(n) :
          /\ a # dns[n]
          /\ dns' = [dns EXCEPT ![n] = a]
    /\ dns_changes' = dns_changes + 1

\* ---------------------------------------------------------------- fetch_page
\* URLs a caller hands to the tools.
RawUrls ==
    { <<"example.com">>, <<"http:", SLASHES, "internal.test">>,
      <<"https:", SLASHES, PublicV4>>, <<"http:", SLASHES, PrivateV4>>,
      <<"ftp:", SLASHES, "example.com">>, <<"https:", SLASHES>>,
      <<"http:", SLASHES, EmptyLabelHost>> }

\* Location header values a server sends: absent, empty, or a target that is
\* absolute, scheme-relative (scheme "") or a path (scheme "" and host "").
NoLocation == [header |-> "absent", scheme |-> "", host |-> ""]
EmptyLocation == [header |-> "empty", scheme |-> "", host |-> ""]
Location(s, h) == [header |-> "value", scheme |-> s, host |-> h]
Locations ==
    { NoLocation, EmptyLocation,
      Location("http", "example.com"), Location("https", "internal.test"),
      Location("http", PrivateV4), Location("ftp", "example.com"),
      Location("http", ""), Location("", "internal.test"), Location("", ""),
      Location("http", EmptyLabelHost) }

\* requests.Response.is_redirect: a Location header and a redirect status.
REDIRECT_STATI == {"301", "302", "303", "307", "308"}
Statuses == {"200", "302"}
is_redirect(response) ==
    response.location.header # "absent" /\ response.status \in REDIRECT_STATI

\* Exceptions session.get raises, with the error text fetch_page gives each.
TransportErrors ==
    { "Request timed out after", "Too many redirects (max", "SSL error",
      "Connection error", "Request failed" }

\* The exception classes of requests.exceptions that session.get raises.
RequestExceptions ==
    { "Timeout", "TooManyRedirects", "SSLError", "ConnectionError", "RequestException" }

\* except clauses without the final requests.exceptions.RequestException one.
except_clauses_no_generic(exc) ==
    CASE exc = "Timeout" -> "Request timed out after"
      [] exc = "TooManyRedirects" -> "Too many redirects (max"
      [] exc = "SSLError" -> "SSL error"
      [] exc = "ConnectionError" -> "Connection error"
      [] OTHER -> ""

\* Lines 177-186: the except clause that catches the exception gives the error
\* text; "" when no clause catches it.
except_clauses(exc) ==
    CASE exc = "Timeout" -> "Request timed out after"
      [] exc = "TooManyRedirects" -> "Too many redirects (max"
      [] exc = "SSLError" -> "SSL error"
      [] exc = "ConnectionError" -> "Connection error"
      [] exc = "RequestException" -> "Request failed"
      [] OTHER -> ""

\* Events of fp_log; status and header are those of a response.
Check(h, ok) ==
    [ev |-> "check", scheme |-> "", host |-> h, ok |-> ok, status |-> "", header |-> ""]
Get(u) ==
    [ev |-> "get", scheme |-> u.scheme, host |-> u.host, ok |-> TRUE,
     status |-> "", header |-> ""]
Resp(u, response) ==
    [ev |-> "resp", scheme |-> u.scheme, host |-> u.host, ok |-> is_redirect(response),
     status |-> response.status, header |-> response.location.header]
Target(u) ==
    [ev |-> "target", scheme |-> u.scheme, host |-> u.host, ok |-> TRUE,
     status |-> "", header |-> ""]
Raise(kind) ==
    [ev |-> "raise", scheme |-> kind, host |-> "", ok |-> FALSE,
     status |-> "", header |-> ""]
\* An _is_public_host call that ended by an exception.
CheckRaise(h) ==
    [ev |-> "check_raise", scheme |-> "", host |-> h, ok |-> FALSE,
     status |-> "", header |-> ""]

\* The string in result["url"]: the caller's text as given (line 112), or the
\* URL of the response (line 148).
UrlString(text, u) == [text |-> text, scheme |-> u.scheme, host |-> u.host]

InitialResult(url) ==
    [url |-> UrlString(url, NoUrl), status_code |-> None, content |-> None, headers |-> {},
     redirect_chain |-> <<>>, error |-> <<>>]

\* _validate_url reaches its _is_public_host call.
ChecksHost(raw_url) ==
    LET url == urlparse(normalize(raw_url)) IN
    url.scheme \in {"http", "https"} /\ url.host # ""

\* A test of validation_error that never sees an error.
validation_failed_never(v) == FALSE

\* Line 121: if validation_error.
validation_failed(v) == v.error # <<>>

\* fetch_page lines 111-130: build result, validate the caller's URL. The call of
\* _validate_url stands before the try statement.
FetchValidate ==
    /\ fp_pc = "start"
    /\ LET v == _validate_url(fp_url, dns)
           h == urlparse(normalize(fp_url)).host
           checked == IF ~v.checked THEN <<>>
                      ELSE IF IsRaise(v) THEN <<CheckRaise(h)>>
                      ELSE <<Check(h, v.error = <<>>)>>
       IN /\ fp_log' = fp_log \o checked
          /\ IF IsRaise(v)
             THEN /\ fp_raised' = TRUE
                  /\ fp_pc' = "done"
                  /\ UNCHANGED <<fp_current, fp_result>>
             ELSE IF validation_failed(v)
             THEN /\ fp_result' = [fp_result EXCEPT !.error = v.error]
                  /\ fp_pc' = "done"
                  /\ UNCHANGED <<fp_current, fp_raised>>
             ELSE /\ fp_current' = v.url
                  /\ fp_pc' = "loop"
                  /\ UNCHANGED <<fp_result, fp_raised>>
    /\ fp_chain' = <<>>
    /\ fp_iter' = 0
    /\ UNCHANGED <<browser_vars, pure_vars>>
    /\ UNCHANGED <<dns, dns_changes, fp_url, fp_follow, fp_max>>

\* Variant: one iteration more than range(max_redirects + 1).
loop_iterations_long(max_redirects) == max_redirects + 2

\* A loop that stops one iteration early.
loop_iterations_short(max_redirects) == max_redirects

\* Line 132: range(max_redirects + 1).
loop_iterations(max_redirects) == max_redirects + 1

\* Lines 132-138: the next iteration of the for loop issues the request.
FetchGet ==
    /\ fp_pc = "loop"
    /\ fp_iter < loop_iterations(fp_max)
    /\ fp_iter' = fp_iter + 1
    /\ fp_log' = Append(fp_log, Get(fp_current))
    /\ fp_pc' = "wait"
    /\ UNCHANGED <<browser_vars, pure_vars>>
    /\ UNCHANGED <<dns, dns_changes, fp_url, fp_follow, fp_max, fp_current, fp_chain,
                   fp_result, fp_raised>>

\* Variant: lines 148-153 without the check of lines 141-146.
FinalResponse_unchecked(response) ==
    /\ fp_log' = Append(fp_log, Resp(fp_current, response))
    /\ fp_result' = [fp_result EXCEPT !.url = UrlString(NoText, fp_current),
                                      !.status_code = response.status,
                                      !.content = "text",
                                      !.headers = {"headers"},
                                      !.redirect_chain = fp_chain]
    /\ fp_pc' = "done"
    /\ UNCHANGED <<fp_current, fp_chain, fp_raised>>

\* Lines 140-153: a response that is not followed; its URL is checked again.
FinalResponse(response) ==
    LET url == fp_current
        r == _is_public_host(url.host, dns)
    IN /\ fp_log' = fp_log \o <<Resp(url, response)>>
                      \o (IF url.host = "" THEN <<>>
                          ELSE IF IsRaise(r) THEN <<CheckRaise(url.host)>>
                          ELSE <<Check(url.host, r.ok)>>)
       /\ IF url.host # "" /\ IsRaise(r)
          THEN fp_raised' = TRUE /\ UNCHANGED fp_result
          ELSE IF url.host # "" /\ ~r.ok
          THEN /\ fp_result' =
                     [fp_result EXCEPT !.error = <<"Blocked final URL">> \o r.reason]
               /\ UNCHANGED fp_raised
          ELSE /\ fp_result' =
                     [fp_result EXCEPT !.url = UrlString(NoText, url),
                                       !.status_code = response.status,
                                       !.content = "text",
                                       !.headers = {"headers"},
                                       !.redirect_chain = fp_chain]
               /\ UNCHANGED fp_raised
       /\ fp_pc' = "done"
       /\ UNCHANGED <<fp_current, fp_chain>>

\* Lines 160-169 with a check that reports a non-public host and lets it pass.
check_redirect_target_lenient(current_url, location, d) ==
    LET next_url == urljoin(current_url, location)
        r == _is_public_host(next_url.host, d)
    IN IF next_url.scheme \notin {"http", "https"} \/ next_url.host = ""
       THEN [next_url |-> next_url, log |-> <<Target(next_url)>>,
             error |-> <<"Blocked redirect target", next_url.scheme, next_url.host>>]
       ELSE [next_url |-> next_url, error |-> <<>>,
             log |-> <<Target(next_url), Check(next_url.host, r.ok)>>]

\* Lines 160-169 without the _is_public_host call.
check_redirect_target_scheme_only(current_url, location, d) ==
    LET next_url == urljoin(current_url, location)
    IN IF next_url.scheme \notin {"http", "https"} \/ next_url.host = ""
       THEN [next_url |-> next_url, log |-> <<Target(next_url)>>,
             error |-> <<"Blocked redirect target", next_url.scheme, next_url.host>>]
       ELSE [next_url |-> next_url, error |-> <<>>, log |-> <<Target(next_url)>>]

\* Lines 160-169: the Location is joined to current_url, and the target's scheme,
\* hostname and host are checked. error is <<>> when the target passes. An
\* exception of _is_public_host is handed on.
check_redirect_target(current_url, location, d) ==
    LET next_url == urljoin(current_url, location)
        r == _is_public_host(next_url.host, d)
    IN IF next_url.scheme \notin {"http", "https"} \/ next_url.host = ""
       THEN [next_url |-> next_url, log |-> <<Target(next_url)>>,
             error |-> <<"Blocked redirect target", next_url.scheme, next_url.host>>]
       ELSE IF IsRaise(r)
       THEN [next_url |-> next_url, error |-> <<>>, raised |-> r.raised,
             log |-> <<Target(next_url), CheckRaise(next_url.host)>>]
       ELSE IF ~r.ok
       THEN [next_url |-> next_url,
             log |-> <<Target(next_url), Check(next_url.host, FALSE)>>,
             error |-> <<"Blocked redirect target">> \o r.reason]
       ELSE [next_url |-> next_url, error |-> <<>>,
             log |-> <<Target(next_url), Check(next_url.host, TRUE)>>]

\* Variant: the chain records the URL that redirected, not the target.
RedirectResponse_appends_current(response) ==
    LET location == response.location
        resp == Resp(fp_current, response)
        hop == check_redirect_target(fp_current, location, dns)
    IN IF location.header # "value"
       THEN /\ fp_result' =
                  [fp_result EXCEPT !.error = <<"Redirect response missing Location header">>]
            /\ fp_log' = Append(fp_log, resp)
            /\ fp_pc' = "done"
            /\ UNCHANGED <<fp_current, fp_chain, fp_raised>>
       ELSE IF IsRaise(hop)
       THEN \* no except clause of lines 177-186 catches it
            /\ fp_raised' = TRUE
            /\ fp_log' = fp_log \o <<resp>> \o hop.log
            /\ fp_pc' = "done"
            /\ UNCHANGED <<fp_current, fp_chain, fp_result>>
       ELSE IF hop.error # <<>>
       THEN /\ fp_result' = [fp_result EXCEPT !.error = hop.error]
            /\ fp_log' = fp_log \o <<resp>> \o hop.log
            /\ fp_pc' = "done"
            /\ UNCHANGED <<fp_current, fp_chain, fp_raised>>
       ELSE /\ fp_chain' = Append(fp_chain, fp_current)
            /\ fp_current' = hop.next_url
            /\ fp_log' = fp_log \o <<resp>> \o hop.log
            /\ fp_pc' = "loop"
            /\ UNCHANGED <<fp_result, fp_raised>>

\* Lines 155-172: a redirect; its target is validated before it becomes current_url.
RedirectResponse(response) ==
    LET location == response.location
        resp == Resp(fp_current, response)
        hop == check_redirect_target(fp_current, location, dns)
    IN IF location.header # "value"
       THEN /\ fp_result' =
                  [fp_result EXCEPT !.error = <<"Redirect response missing Location header">>]
            /\ fp_log' = Append(fp_log, resp)
            /\ fp_pc' = "done"
            /\ UNCHANGED <<fp_current, fp_chain, fp_raised>>
       ELSE IF IsRaise(hop)
       THEN \* no except clause of lines 177-186 catches it
            /\ fp_raised' = TRUE
            /\ fp_log' = fp_log \o <<resp>> \o hop.log
            /\ fp_pc' = "done"
            /\ UNCHANGED <<fp_current, fp_chain, fp_result>>
       ELSE IF hop.error # <<>>
       THEN /\ fp_result' = [fp_result EXCEPT !.error = hop.error]
            /\ fp_log' = fp_log \o <<resp>> \o hop.log
            /\ fp_pc' = "done"
            /\ UNCHANGED <<fp_current, fp_chain, fp_raised>>
       ELSE /\ fp_chain' = Append(fp_chain, hop.next_url)
            /\ fp_current' = hop.next_url
            /\ fp_log' = fp_log \o <<resp>> \o hop.log
            /\ fp_pc' = "loop"
            /\ UNCHANGED <<fp_result, fp_raised>>

\* Variant: line 140 without "not follow_redirects or".
FetchResponse_ignores_flag ==
    /\ fp_pc = "wait"
    /\ \E status \in Statuses, location \in Locations :
          LET response == [status |-> status, location |-> location] IN
          IF ~is_redirect(response)
          THEN FinalResponse(response)
          ELSE RedirectResponse(response)
    /\ UNCHANGED <<browser_vars, pure_vars>>
    /\ UNCHANGED <<dns, dns_changes, fp_url, fp_follow, fp_max, fp_iter>>

\* Lines 140-172: session.get returned a response.
FetchResponse ==
    /\ fp_pc = "wait"
    /\ \E status \in Statuses, location \in Locations :
          LET response == [status |-> status, location |-> location] IN
          IF ~fp_follow \/ ~is_redirect(response)
          THEN FinalResponse(response)
          ELSE RedirectResponse(response)
    /\ UNCHANGED <<browser_vars, pure_vars>>
    /\ UNCHANGED <<dns, dns_changes, fp_url, fp_follow, fp_max, fp_iter>>

\* Variant: the error path hands out the hops followed so far.
FetchTooMany_returns_chain ==
    /\ fp_pc = "loop"
    /\ ~(fp_iter < loop_iterations(fp_max))
    /\ fp_result' = [fp_result EXCEPT !.error = <<"Too many redirects (max">>,
                                      !.redirect_chain = fp_chain]
    /\ fp_pc' = "done"
    /\ UNCHANGED <<browser_vars, pure_vars>>
    /\ UNCHANGED <<dns, dns_changes, fp_url, fp_follow, fp_max, fp_current, fp_chain,
                   fp_iter, fp_raised, fp_log>>

\* Lines 174-175: the loop ran out of iterations.
FetchTooMany ==
    /\ fp_pc = "loop"
    /\ ~(fp_iter < loop_iterations(fp_max))
    /\ fp_result' = [fp_result EXCEPT !.error = <<"Too many redirects (max">>]
    /\ fp_pc' = "done"
    /\ UNCHANGED <<browser_vars, pure_vars>>
    /\ UNCHANGED <<dns, dns_changes, fp_url, fp_follow, fp_max, fp_current, fp_chain,
                   fp_iter, fp_raised, fp_log>>

\* Lines 177-188: session.get raised a requests exception.
FetchRaise ==
    /\ fp_pc = "wait"
    /\ \E exc \in RequestExceptions :
          LET kind == except_clauses(exc) IN
          /\ fp_log' = Append(fp_log, Raise(exc))
          /\ IF kind = ""
             THEN fp_raised' = TRUE /\ UNCHANGED fp_result
             ELSE /\ fp_result' = [fp_result EXCEPT !.error = <<kind>>]
                  /\ UNCHANGED fp_raised
    /\ fp_pc' = "done"
    /\ UNCHANGED <<browser_vars, pure_vars>>
    /\ UNCHANGED <<dns, dns_changes, fp_url, fp_follow, fp_max, fp_current, fp_chain,
                   fp_iter>>

InitDns ==
    /\ dns \in [DnsNames -> UNION { SessionAnswers(n) : n \in DnsNames }]
    /\ \A n \in DnsNames : dns[n] \in SessionAnswers(n)
    /\ dns_changes = 0

FetchDnsChange ==
    fp_pc \notin {"done", "off"} /\ DnsChange /\ UNCHANGED <<fetch_vars, browser_vars, pure_vars>>

\* ------------------------------------------------------------ browser tools
\* analyze_landing, analyze_visual and the two capture_screenshot scripts.
Tools ==
    { "analyze_landing", "analyze_visual", "seo_capture_screenshot",
      "ads_capture_screenshot" }
\* Tools that load the page twice, desktop viewport then mobile viewport.
TwoPassTools == { "analyze_landing", "analyze_visual" }

Hosts == DnsNames \cup { PublicV4, PrivateV4, EmptyLabelHost }
Callers == { "validate", "gate", "final" }

\* URLs the tools are started with.
BrowserRawUrls ==
    { <<"example.com">>, <<"http:", SLASHES, PrivateV4>>,
      <<"ftp:", SLASHES, "example.com">>, <<"http:", SLASHES, EmptyLabelHost>> }

\* URLs of the requests a page issues (route.request.url).
RequestUrls ==
    { Url("http", "example.com"), Url("https", "example.com"),
      Url("https", "internal.test"), Url("http", PrivateV4),
      Url("data", ""), Url("blob", ""), Url("about", ""),
      Url("ws", "example.com"), Url("http", ""), Url("http", EmptyLabelHost) }

\* URLs a page can have landed on when goto returns (page.url).
FinalUrls ==
    { Url("https", "example.com"), Url("https", "internal.test"),
      Url("http", PrivateV4), Url("about", "") }

\* A dict is the function from its keys to their values.
EmptyDict == [h \in {} |-> Allowed]
Store(dict, key, value) ==
    [k \in DOMAIN dict \cup {key} |-> IF k = key THEN value ELSE dict[k]]

Continue(cache) ==
    [decision |-> "continue", cache |-> cache, looked |-> FALSE, resolved |-> FALSE]
Abort(cache) ==
    [decision |-> "abort", cache |-> cache, looked |-> FALSE, resolved |-> FALSE]
\* Lines 107-116 of route_handler: look the host up, resolve and store on a miss,
\* then abort or continue on the entry.
Gate(decision, cache, resolved) ==
    [decision |-> decision, cache |-> cache, looked |-> TRUE, resolved |-> resolved]
\* _is_public_host raised inside route_handler: the handler has no try statement,
\* so the invocation ends before the store and before route.abort()/continue_().
Unhandled(cache) ==
    [decision |-> "raised", cache |-> cache, looked |-> FALSE, resolved |-> TRUE]

\* route_handler that lets only data: URLs through unchecked.
route_handler_data_only(req_url, cache, d) ==
    IF req_url.scheme \in {"data"} THEN Continue(cache)
    ELSE IF req_url.scheme \notin {"http", "https"} \/ req_url.host = ""
    THEN Abort(cache)
    ELSE LET miss == req_url.host \notin DOMAIN cache
             cached == IF miss THEN _is_public_host(req_url.host, d)
                       ELSE cache[req_url.host]
             stored == IF miss THEN Store(cache, req_url.host, cached) ELSE cache
         IN IF IsRaise(cached) THEN Unhandled(cache)
            ELSE IF ~cached.ok THEN Gate("abort", stored, miss)
            ELSE Gate("continue", stored, miss)

\* route_handler that forgets host_cache[hostname] = cached.
route_handler_no_store(req_url, cache, d) ==
    IF req_url.scheme \in {"data", "blob", "about"} THEN Continue(cache)
    ELSE IF req_url.scheme \notin {"http", "https"} \/ req_url.host = ""
    THEN Abort(cache)
    ELSE LET miss == req_url.host \notin DOMAIN cache
             cached == IF miss THEN _is_public_host(req_url.host, d)
                       ELSE cache[req_url.host]
             stored == cache
         IN IF IsRaise(cached) THEN Unhandled(cache)
            ELSE IF ~cached.ok THEN Gate("abort", stored, miss)
            ELSE Gate("continue", stored, miss)

\* route_handler of _attach_route_guard (analyze_landing.py): what one invocation
\* does with the request and the cache. The body holds no Playwright call before
\* route.continue_()/route.abort() and getaddrinfo blocks, so under the sync API
\* no other handler runs in between: one invocation is one step.
route_handler(req_url, cache, d) ==
    IF req_url.scheme \in {"data", "blob", "about"} THEN Continue(cache)
    ELSE IF req_url.scheme \notin {"http", "https"} \/ req_url.host = ""
    THEN Abort(cache)
    ELSE LET miss == req_url.host \notin DOMAIN cache
             cached == IF miss THEN _is_public_host(req_url.host, d)
                       ELSE cache[req_url.host]
             stored == IF miss THEN Store(cache, req_url.host, cached) ELSE cache
         IN IF IsRaise(cached) THEN Unhandled(cache)
            ELSE IF ~cached.ok THEN Gate("abort", stored, miss)
            ELSE Gate("continue", stored, miss)

\* route_handler that continues requests of schemes it does not know.
analyze_visual_route_handler_fail_open(req_url, cache, d) ==
    IF req_url.scheme \in {"data", "blob", "about"} THEN Continue(cache)
    ELSE IF req_url.scheme \notin {"http", "https"} \/ req_url.host = ""
    THEN Continue(cache)
    ELSE LET miss == req_url.host \notin DOMAIN cache
             cached == IF miss THEN _is_public_host(req_url.host, d)
                       ELSE cache[req_url.host]
             stored == IF miss THEN Store(cache, req_url.host, cached) ELSE cache
         IN IF IsRaise(cached) THEN Unhandled(cache)
            ELSE IF ~cached.ok THEN Gate("abort", stored, miss)
            ELSE Gate("continue", stored, miss)

\* route_handler of attach_route_guard (analyze_visual.py).
analyze_visual_route_handler(req_url, cache, d) ==
    IF req_url.scheme \in {"data", "blob", "about"} THEN Continue(cache)
    ELSE IF req_url.scheme \notin {"http", "https"} \/ req_url.host = ""
    THEN Abort(cache)
    ELSE LET miss == req_url.host \notin DOMAIN cache
             cached == IF miss THEN _is_public_host(req_url.host, d)
                       ELSE cache[req_url.host]
             stored == IF miss THEN Store(cache, req_url.host, cached) ELSE cache
         IN IF IsRaise(cached) THEN Unhandled(cache)
            ELSE IF ~cached.ok THEN Gate("abort", stored, miss)
            ELSE Gate("continue", stored, miss)

\* route_handler that forgets host_cache[hostname] = cached.
seo_capture_route_handler_no_store(req_url, cache, d) ==
    IF req_url.scheme \in {"data", "blob", "about"} THEN Continue(cache)
    ELSE IF req_url.scheme \notin {"http", "https"} \/ req_url.host = ""
    THEN Abort(cache)
    ELSE LET miss == req_url.host \notin DOMAIN cache
             cached == IF miss THEN _is_public_host(req_url.host, d)
                       ELSE cache[req_url.host]
             stored == cache
         IN IF IsRaise(cached) THEN Unhandled(cache)
            ELSE IF ~cached.ok THEN Gate("abort", stored, miss)
            ELSE Gate("continue", stored, miss)

\* route_handler of capture_screenshot (seo/scripts/capture_screenshot.py).
seo_capture_route_handler(req_url, cache, d) ==
    IF req_url.scheme \in {"data", "blob", "about"} THEN Continue(cache)
    ELSE IF req_url.scheme \notin {"http", "https"} \/ req_url.host = ""
    THEN Abort(cache)
    ELSE LET miss == req_url.host \notin DOMAIN cache
             cached == IF miss THEN _is_public_host(req_url.host, d)
                       ELSE cache[req_url.host]
             stored == IF miss THEN Store(cache, req_url.host, cached) ELSE cache
         IN IF IsRaise(cached) THEN Unhandled(cache)
            ELSE IF ~cached.ok THEN Gate("abort", stored, miss)
            ELSE Gate("continue", stored, miss)

\* route_handler without the abort on a blocked host.
ads_capture_route_handler_no_abort(req_url, cache, d) ==
    IF req_url.scheme \in {"data", "blob", "about"} THEN Continue(cache)
    ELSE IF req_url.scheme \notin {"http", "https"} \/ req_url.host = ""
    THEN Abort(cache)
    ELSE LET miss == req_url.host \notin DOMAIN cache
             cached == IF miss THEN _is_public_host(req_url.host, d)
                       ELSE cache[req_url.host]
             stored == IF miss THEN Store(cache, req_url.host, cached) ELSE cache
         IN IF IsRaise(cached) THEN Unhandled(cache)
            ELSE Gate("continue", stored, miss)

\* Variant: the handler resolves on every request and overwrites the entry.
ads_capture_route_handler_refresh(req_url, cache, d) ==
    IF req_url.scheme \in {"data", "blob", "about"} THEN Continue(cache)
    ELSE IF req_url.scheme \notin {"http", "https"} \/ req_url.host = ""
    THEN Abort(cache)
    ELSE LET cached == _is_public_host(req_url.host, d)
             stored == Store(cache, req_url.host, cached)
         IN IF IsRaise(cached) THEN Unhandled(cache)
            ELSE IF ~cached.ok THEN Gate("abort", stored, TRUE)
            ELSE Gate("continue", stored, TRUE)

\* route_handler of capture_screenshot (ads/scripts/capture_screenshot.py).
ads_capture_route_handler(req_url, cache, d) ==
    IF req_url.scheme \in {"data", "blob", "about"} THEN Continue(cache)
    ELSE IF req_url.scheme \notin {"http", "https"} \/ req_url.host = ""
    THEN Abort(cache)
    ELSE LET miss == req_url.host \notin DOMAIN cache
             cached == IF miss THEN _is_public_host(req_url.host, d)
                       ELSE cache[req_url.host]
             stored == IF miss THEN Store(cache, req_url.host, cached) ELSE cache
         IN IF IsRaise(cached) THEN Unhandled(cache)
            ELSE IF ~cached.ok THEN Gate("abort", stored, miss)
            ELSE Gate("continue", stored, miss)

\* The handler the tool registered with page.route("**/*", route_handler).
registered_handler(tool, req_url, cache, d) ==
    CASE tool = "analyze_landing" -> route_handler(req_url, cache, d)
      [] tool = "analyze_visual" -> analyze_visual_route_handler(req_url, cache, d)
      [] tool = "seo_capture_screenshot" -> seo_capture_route_handler(req_url, cache, d)
      [] OTHER -> ads_capture_route_handler(req_url, cache, d)

\* _validate_final_page_url (analyze_landing.py); checked says whether
\* _is_public_host was called.
_validate_final_page_url(url, d) ==
    IF url.scheme \notin {"http", "https"} \/ url.host = ""
    THEN [ok |-> FALSE, checked |-> FALSE,
          reason |-> <<"Blocked final URL", url.scheme, url.host>>]
    ELSE LET r == _is_public_host(url.host, d) IN
         IF IsRaise(r)
         THEN [ok |-> FALSE, checked |-> TRUE, reason |-> <<>>, raised |-> r.raised]
         ELSE IF ~r.ok
         THEN [ok |-> FALSE, checked |-> TRUE, reason |-> <<"Blocked final URL">> \o r.reason]
         ELSE [ok |-> TRUE, checked |-> TRUE, reason |-> <<>>]

\* A final-URL check that looks at scheme and hostname only.
inline_final_url_check_scheme_only(url, d) ==
    IF url.scheme \notin {"http", "https"} \/ url.host = ""
    THEN [ok |-> FALSE, checked |-> FALSE,
          reason |-> <<"Blocked final URL", url.scheme, url.host>>]
    ELSE [ok |-> TRUE, checked |-> FALSE, reason |-> <<>>]

\* The final-URL check the other tools spell out after page.goto.
inline_final_url_check(url, d) ==
    IF url.scheme \notin {"http", "https"} \/ url.host = ""
    THEN [ok |-> FALSE, checked |-> FALSE,
          reason |-> <<"Blocked final URL", url.scheme, url.host>>]
    ELSE LET r == _is_public_host(url.host, d) IN
         IF IsRaise(r)
         THEN [ok |-> FALSE, checked |-> TRUE, reason |-> <<>>, raised |-> r.raised]
         ELSE IF ~r.ok
         THEN [ok |-> FALSE, checked |-> TRUE, reason |-> <<"Blocked final URL">> \o r.reason]
         ELSE [ok |-> TRUE, checked |-> TRUE, reason |-> <<>>]

final_url_check(tool, url, d) ==
    IF tool = "analyze_landing" THEN _validate_final_page_url(url, d)
    ELSE inline_final_url_check(url, d)

\* One more _is_public_host call by caller for hostname h, and its outcome.
Called(calls, caller, h) == [calls EXCEPT ![caller][h] = @ + 1]
NoCalls == [c \in Callers |-> [h \in Hosts |-> 0]]
NoHandlerYet ==
    [url |-> NoUrl, decision |-> "none", looked |-> FALSE, resolved |-> FALSE,
     stored |-> FALSE, pass |-> "none"]

\* Events of bt_log: what the tool did with the browser, in order.
Event(ev, pass) == [ev |-> ev, pass |-> pass]

\* The tool validates the URL it was given (analyze_landing lines 186-189); the
\* call stands before the try statement, so an exception leaves the tool.
BrowserValidate ==
    /\ bt_pc = "start"
    /\ LET v == _validate_url(bt_url, dns)
           h == urlparse(normalize(bt_url)).host
       IN /\ IF v.checked
             THEN /\ resolver_calls' = Called(resolver_calls, "validate", h)
                  /\ verdicts' = IF IsRaise(v) THEN verdicts
                                 ELSE verdicts \cup {<<"validate", h, v.error = <<>> >>}
             ELSE UNCHANGED <<resolver_calls, verdicts>>
          /\ IF IsRaise(v)
             THEN /\ bt_pc' = "raised"
                  /\ UNCHANGED <<bt_result, bt_validated>>
             ELSE IF v.error # <<>>
             THEN /\ bt_result' = [bt_result EXCEPT !.error = v.error]
                  /\ bt_pc' = "done"
                  /\ UNCHANGED bt_validated
             ELSE /\ bt_validated' = v.url
                  /\ bt_pc' = "validated"
                  /\ UNCHANGED bt_result
    /\ UNCHANGED <<dns, dns_changes, fetch_vars, pure_vars, bt_tool, bt_url, bt_pass, browser_open,
                   host_cache, page_routed, page_url, pending, emitted, ungated,
                   route_last, bt_log>>

\* A cache that starts with the decision _validate_url reached.
new_host_cache_seeded == Store(EmptyDict, bt_validated.host, Allowed)

\* host_cache: dict[str, tuple[bool, str]] = {} (analyze_landing line 194).
new_host_cache == EmptyDict

\* The browser is launched, host_cache is created empty and the first page is
\* opened (analyze_landing lines 192-198).
BrowserLaunch ==
    /\ bt_pc = "validated"
    /\ browser_open' = TRUE
    /\ host_cache' = new_host_cache
    /\ page_routed' = FALSE
    /\ bt_pass' = "desktop"
    /\ bt_pc' = "page"
    /\ bt_log' = Append(bt_log, Event("launch", "desktop"))
    /\ UNCHANGED <<dns, dns_changes, fetch_vars, pure_vars, bt_tool, bt_url, bt_validated,
                   bt_result, page_url, pending, emitted, ungated, route_last,
                   resolver_calls, verdicts>>

\* A guard that is never registered.
_attach_route_guard_missing == page_routed' = page_routed

\* page.route("**/*", route_handler): _attach_route_guard line 118.
_attach_route_guard == page_routed' = TRUE

\* The tool registers the handler on the page it just opened (analyze_landing
\* lines 199 and 336).
AttachRouteGuard ==
    /\ bt_pc = "page"
    /\ _attach_route_guard
    /\ bt_pc' = "routed"
    /\ bt_log' = IF page_routed' THEN Append(bt_log, Event("route", bt_pass)) ELSE bt_log
    /\ UNCHANGED <<dns, dns_changes, fetch_vars, pure_vars, bt_tool, bt_url, bt_pass, bt_validated,
                   bt_result, browser_open, host_cache, page_url, pending, emitted,
                   ungated, route_last, resolver_calls, verdicts>>

\* A page requests url: the request waits for the registered handler, or goes
\* out unchecked when the page has none.
Issue(url) ==
    IF page_routed
    THEN pending' = pending \cup {url} /\ UNCHANGED ungated
    ELSE ungated' = ungated \cup {url} /\ UNCHANGED pending

\* page.goto(validated_url) starts: the page requests the document
\* (analyze_landing lines 201 and 337).
GotoStart ==
    /\ bt_pc = "routed"
    /\ bt_pc' = "navigating"
    /\ Issue(bt_validated)
    /\ bt_log' = Append(bt_log, Event("goto", bt_pass))
    /\ UNCHANGED <<dns, dns_changes, fetch_vars, pure_vars, bt_tool, bt_url, bt_pass, bt_validated,
                   bt_result, browser_open, host_cache, page_routed, page_url, emitted,
                   route_last, resolver_calls, verdicts>>

\* The page issues a further request (a subresource, a frame) while it loads or
\* while the tool reads it.
PageRequest ==
    /\ bt_pc \in {"navigating", "reading"}
    /\ emitted < MaxRequests
    /\ emitted' = emitted + 1
    /\ \E url \in RequestUrls : url \notin pending /\ Issue(url)
    /\ UNCHANGED <<dns, dns_changes, fetch_vars, pure_vars, bt_tool, bt_url, bt_pc, bt_pass,
                   bt_validated, bt_result, browser_open, host_cache, page_routed,
                   page_url, route_last, resolver_calls, verdicts, bt_log>>

\* Playwright runs the registered handler on one waiting request. What Playwright
\* does with a handler that raises is outside the scripts: the session is
\* followed no further ("fault").
RouteHandler ==
    /\ bt_pc \in {"navigating", "reading"}
    /\ \E url \in pending :
          LET g == registered_handler(bt_tool, url, host_cache, dns) IN
          /\ pending' = pending \ {url}
          /\ host_cache' = g.cache
          /\ route_last' =
                [url |-> url, decision |-> g.decision, looked |-> g.looked,
                 resolved |-> g.resolved, stored |-> g.cache # host_cache,
                 pass |-> bt_pass]
          /\ resolver_calls' =
                IF g.resolved THEN Called(resolver_calls, "gate", url.host)
                ELSE resolver_calls
          /\ verdicts' =
                IF g.looked
                THEN verdicts \cup {<<"gate", url.host, g.decision = "continue">>}
                ELSE verdicts
          /\ bt_pc' = IF g.decision = "raised" THEN "fault" ELSE bt_pc
    /\ UNCHANGED <<dns, dns_changes, fetch_vars, pure_vars, bt_tool, bt_url, bt_pass,
                   bt_validated, bt_result, browser_open, page_routed, page_url,
                   emitted, ungated, bt_log>>

\* page.goto returns once the network is idle; page.url is where the page landed.
GotoReturn ==
    /\ bt_pc = "navigating"
    /\ pending = {}
    /\ \E url \in FinalUrls : page_url' = url
    /\ bt_pc' = "settled"
    /\ UNCHANGED <<dns, dns_changes, fetch_vars, pure_vars, bt_tool, bt_url, bt_pass, bt_validated,
                   bt_result, browser_open, host_cache, page_routed, pending, emitted,
                   ungated, route_last, resolver_calls, verdicts, bt_log>>

\* A tool that goes on with the page after a navigation timeout.
GotoRaise_keeps_page ==
    /\ bt_pc = "navigating"
    /\ \E e \in {"Page load timed out after", "str(e)"} :
          /\ bt_result' = [bt_result EXCEPT !.error = <<e>>]
          /\ bt_log' = Append(bt_log, Event(IF e = "str(e)" THEN "error" ELSE "timeout",
                                            bt_pass))
    /\ pending' = {}
    /\ bt_pc' = "reading"
    /\ UNCHANGED <<dns, dns_changes, fetch_vars, pure_vars, bt_tool, bt_url, bt_pass, bt_validated,
                   host_cache, page_routed, page_url, emitted, ungated, route_last,
                   resolver_calls, verdicts, browser_open>>

\* page.goto raises: PlaywrightTimeout or another error (a blocked document
\* request, a crashed page); the except clauses set error and the with block
\* closes the browser (analyze_landing lines 375-380).
GotoRaise ==
    /\ bt_pc = "navigating"
    /\ \E e \in {"Page load timed out after", "str(e)"} :
          /\ bt_result' = [bt_result EXCEPT !.error = <<e>>]
          /\ bt_log' = Append(bt_log, Event(IF e = "str(e)" THEN "error" ELSE "timeout",
                                            bt_pass))
    /\ browser_open' = FALSE
    /\ pending' = {}
    /\ bt_pc' = "done"
    /\ UNCHANGED <<dns, dns_changes, fetch_vars, pure_vars, bt_tool, bt_url, bt_pass, bt_validated,
                   host_cache, page_routed, page_url, emitted, ungated, route_last,
                   resolver_calls, verdicts>>

\* The landed URL is validated; a failure closes the browser and returns
\* (analyze_landing lines 202-207 and 339-344). An exception of the check is
\* caught by except Exception (lines 377-378).
FinalUrlCheck ==
    /\ bt_pc = "settled"
    /\ LET f == final_url_check(bt_tool, page_url, dns) IN
       /\ IF f.checked
          THEN /\ resolver_calls' = Called(resolver_calls, "final", page_url.host)
               /\ verdicts' = IF IsRaise(f) THEN verdicts
                              ELSE verdicts \cup {<<"final", page_url.host, f.ok>>}
          ELSE UNCHANGED <<resolver_calls, verdicts>>
       /\ IF IsRaise(f)
          THEN /\ bt_result' = [bt_result EXCEPT !.error = <<"str(e)">>]
               /\ browser_open' = FALSE
               /\ bt_pc' = "done"
               /\ bt_log' = Append(bt_log, Event("error", bt_pass))
          ELSE IF ~f.ok
          THEN /\ bt_result' = [bt_result EXCEPT !.error = f.reason]
               /\ browser_open' = FALSE
               /\ bt_pc' = "done"
               /\ bt_log' = Append(bt_log, Event("final_blocked", bt_pass))
          ELSE /\ bt_pc' = "reading"
               /\ bt_log' = Append(bt_log, Event("final_ok", bt_pass))
               /\ UNCHANGED <<bt_result, browser_open>>
    /\ UNCHANGED <<dns, dns_changes, fetch_vars, pure_vars, bt_tool, bt_url, bt_pass, bt_validated,
                   host_cache, page_routed, page_url, pending, emitted, ungated,
                   route_last>>

\* Variant: the mobile page gets a dict of its own.
mobile_host_cache_fresh(cache) == EmptyDict

\* The dict handed to the mobile page's guard: the host_cache object of the
\* desktop pass itself (analyze_landing line 336; in analyze_visual the
\* closure of attach_route_guard over host_cache, lines 133-135 and 233).
mobile_host_cache(cache) == cache

\* The page has been read (analysis tools: page.evaluate, query_selector,
\* page.screenshot; capture tools: page.screenshot) and its context is closed.
\* A two-pass tool opens the mobile page next (analyze_landing lines 331-335);
\* otherwise the browser is closed and the tool returns (lines 372-380);
\* capture_screenshot sets success.
FinishPass ==
    /\ bt_pc = "reading"
    /\ pending' = {}
    /\ bt_log' = Append(bt_log, Event(IF bt_tool \in TwoPassTools THEN "read"
                                      ELSE "screenshot", bt_pass))
    /\ IF bt_tool \in TwoPassTools /\ bt_pass = "desktop"
       THEN /\ bt_pass' = "mobile"
            /\ page_routed' = FALSE
            /\ host_cache' = mobile_host_cache(host_cache)
            /\ bt_pc' = "page"
            /\ UNCHANGED <<bt_result, browser_open>>
       ELSE /\ bt_result' =
                  [bt_result EXCEPT !.success = bt_tool \notin TwoPassTools]
            /\ browser_open' = FALSE
            /\ bt_pc' = "done"
            /\ UNCHANGED <<bt_pass, page_routed, host_cache>>
    /\ UNCHANGED <<dns, dns_changes, fetch_vars, pure_vars, bt_tool, bt_url, bt_validated,
                   page_url, emitted, ungated, route_last, resolver_calls,
                   verdicts>>

\* Nothing of a browser session exists yet.
NoSession ==
    /\ bt_pass = "desktop"
    /\ bt_validated = NoUrl
    /\ bt_result = [error |-> <<>>, success |-> FALSE]
    /\ browser_open = FALSE
    /\ host_cache = EmptyDict
    /\ page_routed = FALSE
    /\ page_url = NoUrl
    /\ pending = {}
    /\ emitted = 0
    /\ ungated = {}
    /\ route_last = NoHandlerYet
    /\ resolver_calls = NoCalls
    /\ verdicts = {}
    /\ bt_log = <<>>

BrowserIdle == bt_pc = "start" /\ NoSession

\* No function is called on its own.
PureIdle ==
    /\ pf_call = "none"
    /\ pf_pc = "call"
    /\ pf_ip = PublicV4
    /\ pf_hostname = ""
    /\ pf_raw = NoText
    /\ pf_result = [ip |-> FALSE, host |-> Allowed, lookups |-> <<>>,
                    url |-> [error |-> <<>>]]

\* Nothing of a fetch_page call exists yet.
NoFetch ==
    /\ fp_current = NoUrl
    /\ fp_chain = <<>>
    /\ fp_iter = 0
    /\ fp_raised = FALSE
    /\ fp_log = <<>>

FetchIdle == fp_pc = "start" /\ NoFetch

InitFetch ==
    /\ InitDns
    /\ fp_url \in RawUrls
    /\ fp_follow \in BOOLEAN
    /\ fp_max \in 0..MaxRedirectsBound
    /\ fp_result = InitialResult(fp_url)
    /\ FetchIdle
    /\ bt_tool = "analyze_landing"
    /\ bt_url = NoText
    /\ BrowserIdle
    /\ PureIdle

InitBrowser ==
    /\ InitDns
    /\ bt_tool \in Tools
    /\ bt_url \in BrowserRawUrls
    /\ BrowserIdle
    /\ fp_url = NoText
    /\ fp_follow = TRUE
    /\ fp_max = 0
    /\ fp_result = InitialResult(NoText)
    /\ FetchIdle
    /\ PureIdle

BrowserDnsChange ==
    bt_pc \notin {"done", "raised", "fault", "off"} /\ DnsChange /\ UNCHANGED <<fetch_vars, browser_vars, pure_vars>>

NextBrowser ==
    \/ BrowserValidate
    \/ BrowserLaunch
    \/ AttachRouteGuard
    \/ GotoStart
    \/ PageRequest
    \/ RouteHandler
    \/ GotoReturn
    \/ GotoRaise
    \/ FinalUrlCheck
    \/ FinishPass
    \/ BrowserDnsChange

SpecBrowser == InitBrowser /\ [][NextBrowser]_vars

NextFetch ==
    \/ FetchValidate
    \/ FetchGet
    \/ FetchResponse
    \/ FetchTooMany
    \/ FetchRaise
    \/ FetchDnsChange

SpecFetch == InitFetch /\ [][NextFetch]_vars

\* One tool is called: fetch_page or one of the browser tools; the other is "off".
InitTools ==
    /\ InitDns
    /\ PureIdle
    /\ \/ /\ fp_url \in RawUrls
          /\ fp_follow \in BOOLEAN
          /\ fp_max \in 0..MaxRedirectsBound
          /\ fp_result = InitialResult(fp_url)
          /\ FetchIdle
          /\ bt_tool = "analyze_landing"
          /\ bt_url = NoText
          /\ bt_pc = "off"
          /\ NoSession
       \/ /\ bt_tool \in Tools
          /\ bt_url \in BrowserRawUrls
          /\ BrowserIdle
          /\ fp_url = NoText
          /\ fp_follow = TRUE
          /\ fp_max = 0
          /\ fp_result = InitialResult(NoText)
          /\ fp_pc = "off"
          /\ NoFetch

NextTools ==
    \/ NextFetch
    \/ NextBrowser

SpecTools == InitTools /\ [][NextTools]_vars

\* ------------------------------------------- the functions called on their own
\* Host names handed to _is_public_host: resolvable, unknown, malformed, empty,
\* and literals.
PureHostnames ==
    { "example.com", "unknown.test", EmptyLabelHost, "", PublicV4, PrivateV4, "::1" }

\* Address texts a getaddrinfo answer is made of.
AnswerTexts == { PublicV4, PublicV6, PrivateV4, BadIPText }

RECURSIVE SeqsUpTo(_, _)
SeqsUpTo(S, n) ==
    IF n = 0 THEN { <<>> }
    ELSE LET shorter == SeqsUpTo(S, n - 1) IN
         shorter \cup { Append(q, x) : q \in { t \in shorter : Len(t) = n - 1 }, x \in S }

\* Every answer of up to MaxAddrs addresses, in every order, and the failure.
PureAnswers == { Addrs(q) : q \in SeqsUpTo(AnswerTexts, MaxAddrs) } \cup { GaiError }

\* URL texts handed to _validate_url: optional whitespace, scheme, "//", host,
\* port and path, in that order.
PureRawUrls ==
    { lead \o scheme \o slashes \o host \o port \o path \o trail :
        lead \in { <<>>, <<WS>> },
        scheme \in { <<>>, <<"http:">>, <<"https:">>, <<"HTTP:">>, <<"ftp:">> },
        slashes \in { <<>>, <<SLASHES>> },
        host \in { <<>>, <<"example.com">>, <<"internal.test">>, <<PrivateV4>>,
                   <<PublicV4>>, <<EmptyLabelHost>> },
        port \in { <<>>, <<PORT>> },
        path \in { <<>>, <<PATH>> },
        trail \in { <<>>, <<WS>> } }

InitPure ==
    /\ dns_changes = 0
    /\ \/ /\ pf_call = "_is_public_ip"
          /\ pf_ip \in IPTexts
          /\ pf_hostname = ""
          /\ pf_raw = NoText
          /\ dns = [n \in DnsNames |-> Addrs(<<PublicV4>>)]
       \/ /\ pf_call = "_is_public_host"
          /\ pf_hostname \in PureHostnames
          /\ \E a \in PureAnswers :
                dns = [n \in DnsNames |-> IF n = "example.com" THEN a ELSE Addrs(<<PublicV4>>)]
          /\ pf_ip = PublicV4
          /\ pf_raw = NoText
       \/ /\ pf_call = "_validate_url"
          /\ pf_raw \in PureRawUrls
          /\ dns \in [DnsNames -> { Addrs(<<PublicV4>>), Addrs(<<PublicV4, PrivateV4>>),
                                     GaiError }]
          /\ pf_ip = PublicV4
          /\ pf_hostname = ""
    /\ pf_pc = "call"
    /\ pf_result = [ip |-> FALSE, host |-> Allowed, lookups |-> <<>>,
                    url |-> [error |-> <<>>]]
    /\ fp_url = NoText
    /\ fp_follow = TRUE
    /\ fp_max = 0
    /\ fp_result = InitialResult(NoText)
    /\ FetchIdle
    /\ bt_tool = "analyze_landing"
    /\ bt_url = NoText
    /\ BrowserIdle

CallIsPublicIp ==
    /\ pf_call = "_is_public_ip" /\ pf_pc = "call"
    /\ pf_result' = [pf_result EXCEPT !.ip = _is_public_ip(pf_ip)]
    /\ pf_pc' = "returned"
    /\ UNCHANGED <<dns, dns_changes, fetch_vars, browser_vars, pf_call, pf_ip,
                   pf_hostname, pf_raw>>

CallIsPublicHost ==
    /\ pf_call = "_is_public_host" /\ pf_pc = "call"
    /\ pf_result' = [pf_result EXCEPT
                        !.host = _is_public_host(pf_hostname, dns),
                        !.lookups = _is_public_host_run(pf_hostname, dns).lookups]
    /\ pf_pc' = "returned"
    /\ UNCHANGED <<dns, dns_changes, fetch_vars, browser_vars, pf_call, pf_ip,
                   pf_hostname, pf_raw>>

CallValidateUrl ==
    /\ pf_call = "_validate_url" /\ pf_pc = "call"
    /\ pf_result' = [pf_result EXCEPT !.url = _validate_url(pf_raw, dns)]
    /\ pf_pc' = "returned"
    /\ UNCHANGED <<dns, dns_changes, fetch_vars, browser_vars, pf_call, pf_ip,
                   pf_hostname, pf_raw>>

NextPure ==
    \/ CallIsPublicIp
    \/ CallIsPublicHost
    \/ CallValidateUrl

SpecPure == InitPure /\ [][NextPure]_vars

\* ------------------------------------------------------- claims on fetch_page
LogIndexes == 1..Len(fp_log)
Gets == { i \in LogIndexes : fp_log[i].ev = "get" }
\* Responses with is_redirect, and the targets the call evaluated.
RedirectsAnswered == { i \in LogIndexes : fp_log[i].ev = "resp" /\ fp_log[i].ok }
Targets == { i \in LogIndexes : fp_log[i].ev = "target" }

\* The target evaluated at log position i failed validation: bad scheme, no
\* hostname, or a host that _is_public_host refused.
TargetFails(i) ==
    \/ fp_log[i].scheme \notin {"http", "https"}
    \/ fp_log[i].host = ""
    \/ /\ i < Len(fp_log)
       /\ fp_log[i + 1].ev = "check"
       /\ ~fp_log[i + 1].ok

\* C1: every request fetch_page issues (the first and each redirect hop) goes to an
\* http/https URL whose host the call's preceding step, an _is_public_host
\* call on that very host, judged public; no request skips the check.
C1_RequestsAreChecked ==
    \A i \in Gets :
        /\ fp_log[i].scheme \in {"http", "https"}
        /\ i > 1
        /\ fp_log[i - 1] = Check(fp_log[i].host, TRUE)

\* A redirect hop was requested after its target passed the check.
C1_Witness ==
    \E i \in Gets : i > 2 /\ fp_log[i - 1].ev = "check" /\ fp_log[i - 2].ev = "target"

\* C2: with follow_redirects on, when the target of a redirect hop fails
\* validation the call is over at once with a 'Blocked redirect target' error, and
\* no request is issued to that target or to any later hop.
C2_BlockedHopStops ==
    \A i \in Targets :
        TargetFails(i) =>
            /\ fp_follow
            /\ fp_pc = "done"
            /\ Head(fp_result.error) = "Blocked redirect target"
            /\ \A j \in Gets : j < i

\* A second hop to a non-public host is blocked after a first hop that was public.
C2_Witness ==
    \E i \in Targets :
        /\ TargetFails(i)
        /\ fp_log[i].host = PrivateV4
        /\ \E j \in Targets : j < i
        /\ Cardinality(Gets) = 2

\* No check failed, no target was malformed, no Location was missing and the
\* client raised nothing: all hosts were public and the server only redirected or
\* answered.
AllPublic ==
    /\ \A i \in LogIndexes :
          /\ fp_log[i].ev = "check" => fp_log[i].ok
          /\ fp_log[i].ev \notin {"raise", "check_raise"}
    /\ \A i \in Targets : ~TargetFails(i)
    /\ fp_result.error # <<"Redirect response missing Location header">>

\* The last response received was not a redirect.
EndsWithAnswer ==
    \E i \in LogIndexes :
        /\ fp_log[i].ev = "resp"
        /\ ~fp_log[i].ok
        /\ \A j \in LogIndexes : fp_log[j].ev = "resp" => j <= i

RedirectBudget ==
    /\ (Cardinality(RedirectsAnswered) = fp_max /\ EndsWithAnswer) =>
          /\ fp_result.error = <<>>
          /\ fp_result.status_code # None
          /\ Len(fp_result.redirect_chain) = fp_max
    /\ Cardinality(RedirectsAnswered) = fp_max + 1 <=>
          fp_result.error = <<"Too many redirects (max">>

\* C3 as stated: with all hosts public, max_redirects redirects and then an
\* answer give success with a chain of max_redirects entries, and
\* max_redirects + 1 redirects, no fewer, give 'Too many redirects'.
C3_Original == (fp_pc = "done" /\ AllPublic) => RedirectBudget

\* C3 amended: the same, for calls with follow_redirects on.
C3_RedirectBudget == (fp_pc = "done" /\ AllPublic /\ fp_follow) => RedirectBudget

\* A call with the largest budget used it up and succeeded.
C3_Witness ==
    /\ fp_pc = "done"
    /\ AllPublic
    /\ fp_follow
    /\ fp_max = MaxRedirectsBound
    /\ Cardinality(RedirectsAnswered) = fp_max
    /\ EndsWithAnswer
    /\ fp_result.error = <<>>

\* A call with a budget of at least one redirect ran out of it.
C3_WitnessTooMany ==
    /\ fp_pc = "done"
    /\ AllPublic
    /\ fp_follow
    /\ fp_max >= 1
    /\ Cardinality(RedirectsAnswered) = fp_max + 1

\* ---------------------------------------------------- claims on the request gate
\* The latest handler invocation was for an http/https URL with a hostname.
LastWasHostRequest ==
    /\ route_last.decision # "none"
    /\ route_last.url.scheme \in {"http", "https"}
    /\ route_last.url.host # ""

GateHandled(h) == \E ok \in BOOLEAN : <<"gate", h, ok>> \in verdicts

\* C4: the gate continues every data:, blob: and about: request without calling
\* _is_public_host and without reading or changing host_cache.
C4_NonNetworkSchemesPass ==
    route_last.url.scheme \in {"data", "blob", "about"} =>
        /\ route_last.decision = "continue"
        /\ ~route_last.resolved
        /\ ~route_last.looked
        /\ ~route_last.stored

\* A blob: request was continued while the cache already held a decision.
C4_Witness ==
    /\ route_last.url.scheme = "blob"
    /\ route_last.decision = "continue"
    /\ host_cache # EmptyDict

\* C5: the gate aborts every request whose scheme is none of data, blob, about,
\* http, https and every http/https request without a hostname, without calling
\* _is_public_host and without touching host_cache.
C5_FailClosedDefault ==
    ( /\ route_last.decision # "none"
      /\ \/ route_last.url.scheme \notin {"data", "blob", "about", "http", "https"}
         \/ /\ route_last.url.scheme \in {"http", "https"}
            /\ route_last.url.host = "" ) =>
        /\ route_last.decision = "abort"
        /\ ~route_last.resolved
        /\ ~route_last.looked
        /\ ~route_last.stored

\* A ws: request to a host the cache holds as public was aborted.
C5_Witness ==
    /\ route_last.url = Url("ws", "example.com")
    /\ route_last.decision = "abort"
    /\ "example.com" \in DOMAIN host_cache
    /\ host_cache["example.com"].ok

\* C6: an intercepted http/https request with a hostname is continued if and only
\* if the session's decision for that hostname is Allowed; with a Blocked
\* decision it is aborted, in the navigation and in every later request.
C6_ContinueIffAllowed ==
    LastWasHostRequest =>
        LET decided == route_last.url.host \in DOMAIN host_cache
            allowed == decided /\ host_cache[route_last.url.host].ok
        IN /\ route_last.decision = "continue" <=> allowed
           /\ (decided /\ ~allowed) => route_last.decision = "abort"

\* A request to a host whose stored decision is Blocked was aborted from the cache.
C6_Witness ==
    /\ LastWasHostRequest
    /\ route_last.decision = "abort"
    /\ ~route_last.resolved
    /\ route_last.url.host = "internal.test"

C8_Original ==
    \A v, w \in verdicts : v[2] = w[2] => v[3] = w[3]

\* C8 amended: the checks of the gate never reach different outcomes for one
\* hostname within a session, in either pass, even when the resolver's answer
\* changes; _validate_url and the final-URL check resolve on their own.
C8_GateKeepsFirstDecision ==
    \A v, w \in verdicts :
        (v[1] = "gate" /\ w[1] = "gate" /\ v[2] = w[2]) => v[3] = w[3]

\* The gate continued a request from its cache although the host no longer
\* resolves to public addresses.
C8_Witness ==
    /\ LastWasHostRequest
    /\ ~route_last.resolved
    /\ route_last.decision = "continue"
    /\ ~_is_public_host(route_last.url.host, dns).ok

\* C9 as stated: a hostname _validate_url resolved is not resolved again by the
\* gate.
C9_Original ==
    \A h \in Hosts : resolver_calls["validate"][h] > 0 => resolver_calls["gate"][h] = 0

\* C9 amended: host_cache starts empty after _validate_url and only the gate uses
\* it: the gate resolves every hostname it handles exactly once, the hostname
\* of the validated top-level URL included, which _validate_url resolved before.
C9_GateResolvesTopLevelHostOnce ==
    /\ (bt_pc = "page" /\ bt_pass = "desktop") => host_cache = EmptyDict
    /\ bt_validated # NoUrl => resolver_calls["validate"][bt_validated.host] = 1
    /\ \A h \in Hosts : GateHandled(h) => resolver_calls["gate"][h] = 1

\* The gate resolved the top-level host in the desktop pass and serves it from
\* the cache in the mobile pass.
C9_Witness ==
    /\ LastWasHostRequest
    /\ route_last.url.host = bt_validated.host
    /\ route_last.pass = "mobile"
    /\ ~route_last.resolved
    /\ resolver_calls["validate"][bt_validated.host] = 1
    /\ resolver_calls["gate"][bt_validated.host] = 1

\* C10: in every tool and every viewport pass the handler is registered on the
\* page before page.goto starts, so no request of a page goes out unchecked.
C10_GateBeforeNavigation ==
    /\ bt_pc \in {"navigating", "settled", "reading"} => page_routed
    /\ ungated = {}

\* The mobile page of a two-pass tool is loading behind its gate.
C10_Witness ==
    /\ bt_pass = "mobile"
    /\ bt_pc = "navigating"
    /\ page_routed
    /\ bt_validated \in pending

\* ---------------------------------------------------- claims on the final URL
BtIndexes == 1..Len(bt_log)
\* Positions of bt_log where a page was read or a screenshot was taken.
Reads == { i \in BtIndexes : bt_log[i].ev \in {"read", "screenshot"} }
LastEvent == bt_log[Len(bt_log)]
HttpWithHost(url) == url.scheme \in {"http", "https"} /\ url.host # ""

\* The tool goes from the landed page to reading it only when the landed URL is
\* http/https with a hostname that _is_public_host accepts at that moment.
C11_Step ==
    (bt_pc = "settled" /\ bt_pc' = "reading") =>
        /\ HttpWithHost(page_url)
        /\ _is_public_host(page_url.host, dns).ok

C11_State ==
    /\ \A i \in Reads : i > 1 /\ bt_log[i - 1] = Event("final_ok", bt_log[i].pass)
    /\ bt_pc = "reading" =>
          /\ LastEvent = Event("final_ok", bt_pass)
          /\ HttpWithHost(page_url)
          /\ <<"final", page_url.host, TRUE>> \in verdicts
    /\ (bt_log # <<>> /\ LastEvent.ev = "final_blocked") =>
          /\ bt_pc = "done"
          /\ ~browser_open
          /\ Head(bt_result.error) = "Blocked final URL"
          /\ ~bt_result.success
          /\ \A i \in Reads : bt_log[i].pass # LastEvent.pass

\* C11: after each navigation (both passes of a two-pass tool) the landed URL is
\* validated (http/https, a hostname, _is_public_host) before the page is read or
\* a screenshot is taken; when it fails the browser is closed, the tool returns a
\* 'Blocked final URL' error, nothing of that page is read and success stays False.
C11_FinalUrlCheckedBeforeRead == [][C11_Step]_vars /\ []C11_State

\* A capture tool landed on a host that fails the check although the gate
\* continued every request it handled.
C11_Witness ==
    /\ bt_log # <<>>
    /\ LastEvent.ev = "final_blocked"
    /\ bt_tool = "seo_capture_screenshot"
    /\ page_url.host = "internal.test"
    /\ \E h \in Hosts : <<"gate", h, TRUE>> \in verdicts
    /\ \A h \in Hosts : <<"gate", h, FALSE>> \notin verdicts
    /\ route_last.decision = "continue"

\* ------------------------------------- claims on the functions called on their own
Returned(fn) == pf_call = fn /\ pf_pc = "returned"

\* The answer of the resolver for pf_hostname holds an address that is not public.
AnswerHasNonPublic ==
    /\ pf_hostname \in DOMAIN dns
    /\ ~dns[pf_hostname].gaierror
    /\ \E i \in 1..Len(dns[pf_hostname].addrs) :
          /\ ip_address(dns[pf_hostname].addrs[i])
          /\ ( is_private(dns[pf_hostname].addrs[i])
               \/ is_loopback(dns[pf_hostname].addrs[i])
               \/ is_reserved(dns[pf_hostname].addrs[i])
               \/ is_link_local(dns[pf_hostname].addrs[i])
               \/ is_multicast(dns[pf_hostname].addrs[i])
               \/ is_unspecified(dns[pf_hostname].addrs[i]) )

\* C12: for a hostname that is no IP literal and resolves to two or more
\* addresses of which at least one is not public, _is_public_host returns
\* Blocked, wherever in the answer that address stands.
C12_AnyNonPublicAddressBlocks ==
    ( /\ Returned("_is_public_host")
      /\ ~ip_address(pf_hostname)
      /\ AnswerHasNonPublic
      /\ Len(dns[pf_hostname].addrs) >= 2 ) =>
        /\ ~IsRaise(pf_result.host)
        /\ ~pf_result.host.ok
        /\ pf_result.host.reason # <<>>

\* Three addresses with the private one last: the host is blocked for it.
C12_Witness ==
    /\ Returned("_is_public_host")
    /\ pf_hostname = "example.com"
    /\ dns["example.com"] = Addrs(<<PublicV4, PublicV6, PrivateV4>>)
    /\ pf_result.host = Blocked(<<"Blocked non-public IP for", "example.com", PrivateV4>>)

\* C13: _validate_url strips the text and, when urlparse finds no scheme in it,
\* puts "https://" before it; when that URL has a hostname, the function returns
\* the https URL and no error if and only if _is_public_host accepts the
\* hostname, and otherwise no URL and the reason _is_public_host gave.
C13_PrefixAndHostVerdict ==
    ( /\ Returned("_validate_url")
      /\ urlparse(strip(pf_raw)).scheme = ""
      /\ urlparse(<<"https:", SLASHES>> \o strip(pf_raw)).host # "" ) =>
        LET url == <<"https:", SLASHES>> \o strip(pf_raw)
            r == _is_public_host(urlparse(url).host, dns)
        IN IF IsRaise(r) THEN IsRaise(pf_result.url)
           ELSE /\ ~IsRaise(pf_result.url)
                /\ (pf_result.url.text = url /\ pf_result.url.error = <<>>) <=> r.ok
                /\ r.ok => pf_result.url.url = Url("https", urlparse(url).host)
                /\ ~r.ok => /\ pf_result.url.text = NoText
                            /\ pf_result.url.error = r.reason
                            /\ pf_result.url.error # <<>>

\* " example.com/path " with a public host comes back as https://example.com/path.
C13_Witness ==
    /\ Returned("_validate_url")
    /\ pf_raw = <<WS, "example.com", PATH, WS>>
    /\ pf_result.url.text = <<"https:", SLASHES, "example.com", PATH>>
    /\ pf_result.url.error = <<>>
    /\ dns["example.com"] = Addrs(<<PublicV4>>)

\* C14: _validate_url rejects a URL whose scheme is not http or https with an
\* invalid-scheme error and a URL without hostname with a missing-hostname
\* error, in both cases without calling _is_public_host.
C14_SchemeAndHostnameFirst ==
    Returned("_validate_url") =>
        LET parsed == urlparse(normalize(pf_raw)) IN
        /\ parsed.scheme \notin {"http", "https"} =>
              /\ pf_result.url.error = <<"Invalid URL scheme", parsed.scheme>>
              /\ pf_result.url.text = NoText
              /\ ~pf_result.url.checked
        /\ (parsed.scheme \in {"http", "https"} /\ parsed.host = "") =>
              /\ pf_result.url.error = <<"Invalid URL: missing hostname">>
              /\ pf_result.url.text = NoText
              /\ ~pf_result.url.checked
        /\ (strip(pf_raw) # <<>> /\ Head(strip(pf_raw)) = "ftp:") =>
              pf_result.url.error = <<"Invalid URL scheme", "ftp">>

\* ftp://example.com is rejected for its scheme although the host is public.
C14_Witness ==
    /\ Returned("_validate_url")
    /\ pf_raw = <<"ftp:", SLASHES, "example.com">>
    /\ dns["example.com"] = Addrs(<<PublicV4>>)
    /\ pf_result.url.error = <<"Invalid URL scheme", "ftp">>
    /\ ~pf_result.url.checked

\* C15: _is_public_ip returns True exactly for the addresses that are in none of
\* the classes private, loopback, reserved, link-local, multicast, unspecified.
C15_PublicIffNoClass ==
    Returned("_is_public_ip") =>
        ( pf_result.ip <=>
            /\ ~is_private(pf_ip)
            /\ ~is_loopback(pf_ip)
            /\ ~is_reserved(pf_ip)
            /\ ~is_link_local(pf_ip)
            /\ ~is_multicast(pf_ip)
            /\ ~is_unspecified(pf_ip) )

\* An IPv6 multicast address, which is in no other class, is not public.
C15_Witness ==
    /\ Returned("_is_public_ip")
    /\ pf_ip = "ff02::1"
    /\ ~is_private(pf_ip)
    /\ pf_result.ip = FALSE

\* ------------------------------------------------ claims on errors and failures
\* C16: every validation failure of fetch_page (of the caller's URL, of a redirect
\* hop, of the final URL) reaches the caller as a returned error: the call never
\* ends by an exception, and a check that did not complete is followed by no
\* request and by an error in the result.
C16_ValidationNeverRaises ==
    /\ ~fp_raised
    /\ \A i \in LogIndexes :
          fp_log[i].ev = "check_raise" =>
              /\ fp_pc = "done"
              /\ fp_result.error # <<>>
              /\ \A j \in Gets : j < i


\* C17: an exception of the HTTP client (timeout, TLS, connection, too many
\* redirects, any other request error) ends fetch_page with its error text in
\* result['error'] and status_code and content None; it does not leave the call.
C17_TransportErrorsAreReturned ==
    \A i \in LogIndexes :
        fp_log[i].ev = "raise" =>
            /\ i = Len(fp_log)
            /\ fp_pc = "done"
            /\ ~fp_raised
            /\ fp_result.error \in { <<text>> : text \in TransportErrors }
            /\ fp_log[i].scheme = "Timeout" => fp_result.error = <<"Request timed out after">>
            /\ fp_log[i].scheme = "RequestException" => fp_result.error = <<"Request failed">>
            /\ fp_result.status_code = None
            /\ fp_result.content = None

\* The request to a redirect target failed with a TLS error.
C17_Witness ==
    /\ fp_log # <<>>
    /\ fp_log[Len(fp_log)] = Raise("SSLError")
    /\ Cardinality(Gets) = 2
    /\ fp_result.error = <<"SSL error">>
    /\ fp_result.status_code = None


Checks == { i \in LogIndexes : fp_log[i].ev = "check" }
\* Sum of the _is_public_host calls of one caller over all hostnames.
RECURSIVE CallsOver(_, _)
CallsOver(caller, hosts) ==
    IF hosts = {} THEN 0
    ELSE LET h == CHOOSE x \in hosts : TRUE IN
         resolver_calls[caller][h] + CallsOver(caller, hosts \ {h})

\* fetch_page is past its _validate_url call, which returned an error.
FetchValidationFailed ==
    fp_pc \notin {"off", "start"} /\ fp_current = NoUrl /\ ~fp_raised
\* A browser tool is past its _validate_url call, which returned an error.
BrowserValidationFailed ==
    bt_pc \notin {"off", "start", "raised"} /\ bt_validated = NoUrl

\* C18: when _validate_url returns an error for the caller's URL the tool is over
\* with error set after that one validation: fetch_page has issued no request,
\* a browser tool has launched no browser, registered no handler and started no
\* navigation, and nothing was tried again.
C18_FailedValidationIsFinal ==
    /\ FetchValidationFailed =>
          /\ fp_pc = "done"
          /\ fp_result.error # <<>>
          /\ fp_result.status_code = None
          /\ Gets = {}
          /\ Cardinality(Checks) <= 1
          /\ Len(fp_log) <= 1
    /\ BrowserValidationFailed =>
          /\ bt_pc = "done"
          /\ bt_result.error # <<>>
          /\ ~bt_result.success
          /\ bt_log = <<>>
          /\ ~browser_open
          /\ ~page_routed
          /\ pending = {} /\ ungated = {}
          /\ route_last = NoHandlerYet
          /\ CallsOver("validate", Hosts) <= 1
          /\ CallsOver("gate", Hosts) = 0
          /\ CallsOver("final", Hosts) = 0

\* fetch_page was called with a name that does not resolve: one check, no request.
C18_Witness ==
    /\ FetchValidationFailed
    /\ fp_url = <<"example.com">>
    /\ fp_log = <<Check("example.com", FALSE)>>
    /\ fp_result.error = <<"DNS resolution failed for", "example.com">>
    /\ fp_follow
    /\ fp_max = MaxRedirectsBound


Timeouts == { i \in BtIndexes : bt_log[i].ev = "timeout" }

\* C19: a navigation that times out is the last thing the session does: the tool
\* returns the timeout error with the browser closed, starts no further
\* navigation (no mobile pass), and has read nothing and taken no screenshot of
\* the page whose navigation timed out.
C19_TimeoutIsFinal ==
    \A i \in Timeouts :
        /\ i = Len(bt_log)
        /\ i > 1 /\ bt_log[i - 1] = Event("goto", bt_log[i].pass)
        /\ bt_pc = "done"
        /\ bt_result.error = <<"Page load timed out after">>
        /\ ~bt_result.success
        /\ ~browser_open
        /\ pending = {}
        /\ \A j \in Reads : bt_log[j].pass # bt_log[i].pass

\* The desktop navigation of a two-pass tool timed out after the gate had
\* continued a request: the mobile pass never starts.
C19_Witness ==
    /\ bt_tool = "analyze_landing"
    /\ bt_log = <<Event("launch", "desktop"), Event("route", "desktop"),
                  Event("goto", "desktop"), Event("timeout", "desktop")>>
    /\ route_last.decision = "continue"
    /\ bt_pc = "done"
    /\ bt_pass = "desktop"


\* C20: every invocation of route_handler ends having called exactly one of
\* route.continue_() and route.abort(): the latest invocation, whichever request
\* it was for, left the request continued or aborted, and the session never
\* stops on a handler that decided nothing.
C20_ExactlyOneDecision ==
    /\ route_last.decision \in {"none", "continue", "abort"}
    /\ bt_pc # "fault"


\* C21: once a decision for a hostname is stored in the session's host cache,
\* no step of the session changes or removes that entry, whatever the order of
\* the requests and of the resolver's changes; a gate that aborted a request on
\* a resolver verdict has stored that Blocked verdict just as it stores Allowed.
C21_Step ==
    \A h \in DOMAIN host_cache :
        h \in DOMAIN host_cache' /\ host_cache'[h] = host_cache[h]

C21_BlockedStored ==
    (LastWasHostRequest /\ route_last.resolved /\ route_last.decision = "abort")
        => /\ route_last.url.host \in DOMAIN host_cache
           /\ ~host_cache[route_last.url.host].ok

C21_CacheEntriesAreKept == [][C21_Step]_vars /\ []C21_BlockedStored

\* A Blocked entry is still in the cache, and a later request to its host was
\* aborted from it, although the resolver now answers a public address.
C21_Witness ==
    /\ LastWasHostRequest
    /\ ~route_last.resolved
    /\ route_last.decision = "abort"
    /\ route_last.url.host \in DOMAIN host_cache
    /\ ~host_cache[route_last.url.host].ok
    /\ ~IsRaise(_is_public_host(route_last.url.host, dns))
    /\ _is_public_host(route_last.url.host, dns).ok


\* C22: in analyze_landing and analyze_visual the mobile pass works on the host
\* cache of the desktop pass: opening the mobile page keeps every entry, the
\* gate never resolves a hostname again that is in the cache, and a mobile
\* request to such a hostname gets the decision of the stored verdict.
C22_Step ==
    /\ (bt_pass = "desktop" /\ bt_pass' = "mobile") =>
          (bt_tool \in TwoPassTools /\ host_cache' = host_cache)
    /\ \A h \in DOMAIN host_cache :
          resolver_calls'["gate"][h] = resolver_calls["gate"][h]

C22_MobileDecision ==
    (LastWasHostRequest /\ route_last.pass = "mobile" /\ ~route_last.resolved
        /\ route_last.decision # "raised")
        => /\ route_last.url.host \in DOMAIN host_cache
           /\ route_last.decision =
                 IF host_cache[route_last.url.host].ok THEN "continue" ELSE "abort"

C22_PassesShareHostCache == [][C22_Step]_vars /\ []C22_MobileDecision

\* A sub-resource host blocked in the desktop pass is aborted in the mobile pass
\* from the cache, with one resolution by the gate in the whole session.
C22_Witness ==
    /\ bt_tool \in TwoPassTools
    /\ LastWasHostRequest
    /\ route_last.pass = "mobile"
    /\ route_last.url.host # bt_validated.host
    /\ ~route_last.resolved
    /\ route_last.decision = "abort"
    /\ resolver_calls["gate"][route_last.url.host] = 1


\* C23: for a hostname that is a literal IP address, _is_public_host decides
\* from that address alone, Allowed exactly when it is public, and does not
\* call socket.getaddrinfo.
C23_LiteralIpIsNotResolved ==
    (Returned("_is_public_host") /\ ip_address(pf_hostname))
        => /\ pf_result.lookups = <<>>
           /\ pf_result.host =
                 IF _is_public_ip(pf_hostname) THEN Allowed
                 ELSE Blocked(<<"Blocked non-public IP", pf_hostname>>)

\* The loopback literal is blocked without a lookup, while a lookup of a name
\* would have failed.
C23_Witness ==
    /\ Returned("_is_public_host")
    /\ pf_hostname = "::1"
    /\ dns["example.com"] = GaiError
    /\ pf_result.lookups = <<>>
    /\ pf_result.host = Blocked(<<"Blocked non-public IP", "::1">>)

\* C24: when socket.getaddrinfo fails for a hostname, _is_public_host returns
\* not-allowed with the reason "DNS resolution failed for" and the hostname, a
\* reason no blocked address gets; the failure never yields Allowed.
C24_ResolutionFailureIsBlocked ==
    (Returned("_is_public_host") /\ pf_result.lookups # <<>>
        /\ ~IsRaise(getaddrinfo(pf_hostname, dns))
        /\ getaddrinfo(pf_hostname, dns).gaierror)
        => /\ pf_result.host = Blocked(<<"DNS resolution failed for", pf_hostname>>)
           /\ pf_result.host.reason[1] \notin
                 {"Blocked non-public IP", "Blocked non-public IP for",
                  "Invalid resolved IP for", "Missing hostname"}

\* The lookup of a name fails and the call reports exactly that.
C24_Witness ==
    /\ Returned("_is_public_host")
    /\ pf_hostname = "example.com"
    /\ dns["example.com"] = GaiError
    /\ pf_result.lookups = <<"example.com">>
    /\ pf_result.host = Blocked(<<"DNS resolution failed for", "example.com">>)


\* Responses the call does not follow: follow_redirects is off or is_redirect
\* is False.
FinalAnswers ==
    { i \in LogIndexes : fp_log[i].ev = "resp" /\ ~(fp_follow /\ fp_log[i].ok) }

\* C25: with follow_redirects on, a response with a redirect status and no
\* Location header ends the call with "Redirect response missing Location
\* header": no request follows it and the result holds no response data.
C25_MissingLocationEndsTheCall ==
    \A i \in LogIndexes :
        (fp_follow /\ fp_log[i].ev = "resp" /\ fp_log[i].status \in REDIRECT_STATI
            /\ fp_log[i].header = "absent")
        => /\ fp_pc = "done"
           /\ \A j \in Gets : j < i
           /\ ~fp_raised =>
                 /\ fp_result.error = <<"Redirect response missing Location header">>
                 /\ fp_result.status_code = None
                 /\ fp_result.content = None
                 /\ fp_result.headers = {}

\* C26: a response the call does not follow is returned only after its URL's
\* host passed _is_public_host again: status_code, content and headers enter the
\* result in a step that finds the host public, and a response whose host is
\* refused leaves them unset under a "Blocked final URL" error.
C26_Step ==
    (fp_result.status_code = None /\ fp_result'.status_code # None)
        => /\ fp_pc = "wait"
           /\ fp_current.host # ""
           /\ ~IsRaise(_is_public_host(fp_current.host, dns))
           /\ _is_public_host(fp_current.host, dns).ok

C26_State ==
    \A i \in FinalAnswers :
        /\ i < Len(fp_log)
        /\ fp_log[i + 1].ev \in {"check", "check_raise"}
        /\ fp_log[i + 1].host = fp_log[i].host
        /\ (fp_log[i + 1].ev = "check" /\ fp_log[i + 1].ok) =>
              /\ fp_result.error = <<>>
              /\ fp_result.status_code = fp_log[i].status
              /\ fp_result.content # None
        /\ (fp_log[i + 1].ev = "check" /\ ~fp_log[i + 1].ok) =>
              /\ fp_result.error # <<>>
              /\ fp_result.error[1] = "Blocked final URL"
              /\ fp_result.status_code = None
              /\ fp_result.content = None
              /\ fp_result.headers = {}

C26_FinalUrlIsRevalidated == [][C26_Step]_vars /\ []C26_State

\* After one redirect hop the answer arrives from a host that resolves to a
\* private address by now: the call returns the error and none of the response.
C26_Witness ==
    /\ fp_pc = "done"
    /\ fp_chain # <<>>
    /\ FinalAnswers # {}
    /\ fp_result.error # <<>>
    /\ fp_result.error[1] = "Blocked final URL"
    /\ fp_result.status_code = None


\* C27 as stated: the redirect chain never holds more than max_redirects
\* entries, in any state of the call and in the result.
C27_Original ==
    /\ Len(fp_chain) <= fp_max
    /\ Len(fp_result.redirect_chain) <= fp_max

\* C27, amended: the redirect_chain of the result never holds more than
\* max_redirects entries. The list the loop appends to holds at most
\* max_redirects + 1: the last iteration appends the target it accepted before
\* the loop ends, and a list of that length is never returned, the call ends
\* with "Too many redirects" and the result's chain stays empty.
C27_ChainBound ==
    /\ Len(fp_result.redirect_chain) <= fp_max
    /\ Len(fp_chain) <= fp_max + 1
    /\ Len(fp_chain) = fp_max + 1 =>
          /\ fp_iter = fp_max + 1
          /\ fp_result.redirect_chain = <<>>
          /\ fp_result.status_code = None
          /\ fp_pc = "done" => fp_result.error = <<"Too many redirects (max">>
    /\ (fp_pc = "done" /\ fp_result.error = <<>> /\ ~fp_raised) =>
          fp_result.redirect_chain = fp_chain

\* Two hops were allowed and three targets were accepted: the list holds three
\* entries when the call ends with the error.
C27_Witness ==
    /\ fp_pc = "done"
    /\ fp_max = 2
    /\ Len(fp_chain) = 3
    /\ fp_result.error = <<"Too many redirects (max">>
    /\ fp_result.redirect_chain = <<>>


\* No call issues more than max_redirects + 1 requests.
C28_RequestBound == Cardinality(Gets) <= fp_max + 1

\* How far a call is: the iterations begun, and the place within one.
C28_Measure ==
    IF fp_pc = "start" THEN 0
    ELSE IF fp_pc = "loop" THEN 2 * fp_iter + 1
    ELSE IF fp_pc = "wait" THEN 2 * fp_iter
    ELSE 2 * fp_max + 4

\* Every step of the call itself moves it on, and the measure is bounded: no
\* call runs for ever.
C28_Progress ==
    /\ fp_pc' # fp_pc => C28_Measure' > C28_Measure
    /\ fp_log' # fp_log => fp_pc' # fp_pc
    /\ C28_Measure <= 2 * fp_max + 4

\* C28: fetch_page issues at most max_redirects + 1 HTTP requests per call and
\* always returns, whatever the server answers (a redirect loop between two
\* URLs included): the request bound holds, every step brings the call nearer
\* to its end, and a call that has ended has returned its result.
C28_BoundedRequestsAndReturn ==
    /\ [][C28_Progress]_vars
    /\ [](C28_RequestBound /\ (fp_pc = "done" => ~fp_raised))


\* The decimal text of a small number, as an f-string would print it.
C29_Digits == <<"0", "1", "2", "3", "4", "5", "6", "7", "8", "9">>

\* The redirect hops accepted before the one that was blocked.
C29_HopsBefore == Len(fp_chain)

\* C29: when a redirect target is blocked, the error of the result carries the
\* index of the blocked hop (counted from 0 or from 1).
C29_BlockedTargetNamesTheHop ==
    (fp_pc = "done" /\ fp_result.error # <<>>
        /\ fp_result.error[1] = "Blocked redirect target")
        => \E k \in 2..Len(fp_result.error) :
              fp_result.error[k] \in { C29_Digits[C29_HopsBefore + 1],
                                       C29_Digits[C29_HopsBefore + 2] }


\* C30: in the result fetch_page returns, error is None exactly when
\* status_code is set; whenever error is set, content is None, headers is empty,
\* redirect_chain is the empty list and url is the caller's input as given.
C30_ResultShape ==
    (fp_pc = "done" /\ ~fp_raised)
        => /\ fp_result.error = <<>> <=> fp_result.status_code # None
           /\ fp_result.error # <<>> =>
                 /\ fp_result.content = None
                 /\ fp_result.headers = {}
                 /\ fp_result.redirect_chain = <<>>
                 /\ fp_result.url = UrlString(fp_url, NoUrl)

\* The call followed hops from a URL it had to normalise and then ran out of
\* redirects: the result holds the error, the text as given and no hop.
C30_Witness ==
    /\ fp_pc = "done"
    /\ ~fp_raised
    /\ fp_url = <<"example.com">>
    /\ fp_chain # <<>>
    /\ fp_result.error = <<"Too many redirects (max">>
    /\ fp_result.redirect_chain = <<>>
    /\ fp_result.url.text = <<"example.com">>
    /\ fp_result.status_code = None


\* The URL of the k-th request of the call.
C31_Request(k) ==
    LET i == CHOOSE g \in Gets : Cardinality({ j \in Gets : j <= g }) = k
    IN Url(fp_log[i].scheme, fp_log[i].host)

\* The call returned a response.
C31_Success == fp_pc = "done" /\ ~fp_raised /\ fp_result.error = <<>>

\* On success the chain is the list of the requests after the first, in order.
C31_ChainIsLaterRequests ==
    C31_Success =>
        /\ Len(fp_result.redirect_chain) = Cardinality(Gets) - 1
        /\ \A k \in 1..Len(fp_result.redirect_chain) :
              fp_result.redirect_chain[k] = C31_Request(k + 1)
        /\ fp_result.url = UrlString(NoText, C31_Request(Cardinality(Gets)))

\* Every entry of the chain was evaluated as a redirect target and accepted by
\* _is_public_host before it was requested.
C31_EntriesWereValidated ==
    C31_Success =>
        \A k \in 1..Len(fp_result.redirect_chain) :
            \E i \in Targets :
                /\ Url(fp_log[i].scheme, fp_log[i].host) = fp_result.redirect_chain[k]
                /\ Cardinality({ j \in Gets : j < i }) = k
                /\ fp_log[i + 1] = Check(fp_log[i].host, TRUE)
                /\ fp_log[i + 2].ev = "get"

\* C31 as stated: the chain is the list of validated and requested targets, its
\* length is the number of requests minus one, its last entry is the URL of the
\* last request, and the starting URL is not in it.
C31_Original ==
    /\ C31_ChainIsLaterRequests
    /\ C31_EntriesWereValidated
    /\ C31_Success =>
          \A k \in 1..Len(fp_result.redirect_chain) :
              fp_result.redirect_chain[k] # C31_Request(1)

\* C31, amended: on success redirect_chain lists, in the order followed, exactly
\* the redirect targets that were validated and then requested; its length is
\* the number of requests minus one and its last entry is the URL of the last
\* request. The starting URL gets no entry for the first request, but a target
\* that is the starting URL again is listed like every other target.
C31_ChainListsFollowedTargets ==
    /\ C31_ChainIsLaterRequests
    /\ C31_EntriesWereValidated
    /\ (C31_Success /\ fp_result.redirect_chain # <<>>) =>
          fp_result.redirect_chain[Len(fp_result.redirect_chain)]
              = C31_Request(Cardinality(Gets))

\* Two hops, to another host and back to the starting URL, then the answer.
C31_Witness ==
    /\ C31_Success
    /\ Len(fp_result.redirect_chain) = 2
    /\ Cardinality(Gets) = 3
    /\ fp_result.redirect_chain[1] # C31_Request(1)
    /\ fp_result.redirect_chain[2] = C31_Request(1)


\* C32: with follow_redirects = False fetch_page issues one request and no
\* more; a redirect response is returned as the result once the host of the
\* requested URL passed the final check; no Location target is evaluated,
\* resolved or requested, and redirect_chain stays empty.
C32_NoRedirectsFollowed ==
    ~fp_follow =>
        /\ Cardinality(Gets) <= 1
        /\ (fp_pc = "done" /\ fp_current # NoUrl) => Cardinality(Gets) = 1
        /\ Targets = {}
        /\ \A i \in LogIndexes :
              fp_log[i].ev \in {"check", "check_raise"} =>
                  fp_log[i].host = urlparse(normalize(fp_url)).host
        /\ fp_chain = <<>>
        /\ fp_result.redirect_chain = <<>>
        /\ \A i \in LogIndexes :
              (fp_log[i].ev = "resp" /\ i < Len(fp_log)
                  /\ fp_log[i + 1] = Check(fp_current.host, TRUE))
              => /\ fp_result.error = <<>>
                 /\ fp_result.status_code = fp_log[i].status
                 /\ fp_result.url = UrlString(NoText, fp_current)

\* A 302 that names another host is returned as it is; that host was never
\* looked up.
C32_Witness ==
    /\ ~fp_follow
    /\ fp_pc = "done"
    /\ fp_result.status_code = "302"
    /\ fp_result.redirect_chain = <<>>
    /\ Cardinality(Gets) = 1
    /\ \E i \in LogIndexes :
          fp_log[i].ev = "resp" /\ fp_log[i].ok /\ fp_log[i].header = "value"
    /\ \A i \in LogIndexes : fp_log[i].host = "example.com"


C34_SameGate(url) ==
    /\ analyze_visual_route_handler(url, host_cache, dns)
          = route_handler(url, host_cache, dns)
    /\ seo_capture_route_handler(url, host_cache, dns)
          = route_handler(url, host_cache, dns)
    /\ ads_capture_route_handler(url, host_cache, dns)
          = route_handler(url, host_cache, dns)

\* C34: the guard copies are equivalent. On every host cache a session of any
\* of the four tools reaches, and under every answer of the resolver, the four
\* request gates take the same decision on the same request and leave the same
\* cache, so equal request sequences give equal decisions and caches; and
\* _validate_final_page_url gives the outcome of the inline final-URL check.
C34_GuardCopiesAgree ==
    /\ \A url \in RequestUrls : C34_SameGate(url)
    /\ \A url \in FinalUrls \cup RequestUrls :
          _validate_final_page_url(url, dns) = inline_final_url_check(url, dns)

\* A session of analyze_visual holds a Blocked entry its gate aborted on: the
\* gate of analyze_landing aborts the same request from the same cache, and
\* resolves a host that is not in the cache to the same new cache.
C34_Witness ==
    /\ bt_tool = "analyze_visual"
    /\ LastWasHostRequest
    /\ route_last.decision = "abort"
    /\ route_last.url.host \in DOMAIN host_cache
    /\ route_handler(route_last.url, host_cache, dns).decision = "abort"
    /\ \E url \in RequestUrls :
          /\ url.host \notin DOMAIN host_cache
          /\ route_handler(url, host_cache, dns).decision = "continue"
          /\ route_handler(url, host_cache, dns).cache # host_cache
====
